---- MODULE Spec2Model ----
(***************************************************************************)
(* A model of textcanvas (src/textcanvas/textcanvas.py): the pixel, color  *)
(* and text buffers of a TextCanvas, the operations that mutate them, the  *)
(* Braille serializer and canvas-onto-canvas compositing.                  *)
(*                                                                         *)
(* Python lists are sequences: buffer[y][x] of the source is               *)
(* buffer[y + 1][x + 1] here.  Python strings are sequences of code        *)
(* points, so "a" is <<97>> and the empty string is <<>>.                  *)
(***************************************************************************)
EXTENDS Integers, Sequences, FiniteSets, TLC

VARIABLES canvas, pre, last, nops

vars == <<canvas, pre, last, nops>>

(***************************************************************************)
(* Bounds of the model.                                                    *)
(***************************************************************************)
\* Number of calls made on the canvas in one behaviour.
MaxOps == 2
\* How far outside the screen (or output) bounds a coordinate can lie.
Margin == 1
\* Number of compositing calls in one behaviour of SpecComposite.
MaxComposite == 1
\* Offsets of a compositing call range over -MaxDx..MaxDx and -MaxDy..MaxDy
\* (and one row of blocks up or down).
MaxDx == 2
MaxDy == 1
\* Number of drawing-primitive calls in one behaviour.
MaxShapes == 1
\* Largest width and height of a rectangle.
MaxSide == 2
\* Largest coordinate of a point handed to the point-in-triangle test.
MaxTriangle == 2
\* Largest radius of an n-gon.
MaxRadius == 2
\* Largest radius of a circle.
MaxCircle == 3
\* Largest number of frames render_frame returns to a game loop.
MaxFrames == 2

\* Output sizes handed to the constructor.
Sizes == {<<2, 1>>, <<1, 2>>}

(***************************************************************************)
(* color.py: a color is what decides its escape sequence.  Only the        *)
(* "no color" value and 4-bit foreground colors are modelled.              *)
(***************************************************************************)
None == <<>>
Some(v) == <<v>>

ESC == <<27, 91>>
RESET == <<27, 91, 48, 109>>

Color == [mode |-> "NO_COLOR", color_4bit |-> None]
apply_color_4bit(color) == [mode |-> "COLOR_4BIT", color_4bit |-> Some(color)]
red == apply_color_4bit(31)
green == apply_color_4bit(32)

Colors == {Color, red, green}

is_empty(color) == color.mode = "NO_COLOR"
has_colors(color) == ~(color.mode = "NO_COLOR")

\* str(n) of a natural number, as code points.
RECURSIVE Decimal(_)
Decimal(n) ==
    IF n < 10 THEN <<48 + n>> ELSE Decimal(n \div 10) \o <<48 + (n % 10)>>

format_colors_4bit(color) ==
    IF color.color_4bit # None THEN Decimal(color.color_4bit[1]) ELSE <<>>

\* Color.format(string): to_string() with the placeholder replaced.
format(color, string) ==
    IF is_empty(color)
    THEN string
    ELSE ESC \o <<48>>
             \o (IF has_colors(color) THEN <<59>> ELSE <<>>)
             \o format_colors_4bit(color)
             \o <<109>> \o string \o RESET

(***************************************************************************)
(* textcanvas.py: constants, Surface, construction.                        *)
(***************************************************************************)
ON == TRUE
OFF == FALSE

BRAILLE_UNICODE_0 == 10240

\* Variant: the offsets numbered row by row.
BRAILLE_UNICODE_OFFSET_MAP_by_rows ==
    <<<<1, 2>>, <<4, 8>>, <<16, 32>>, <<64, 128>>>>

BRAILLE_UNICODE_OFFSET_MAP == <<<<1, 8>>, <<2, 16>>, <<4, 32>>, <<64, 128>>>>

Surface(width, height) == [width |-> width, height |-> height]

\* [[v for _ in range(width)] for _ in range(height)]
Grid(width, height, v) == [y \in 1..height |-> [x \in 1..width |-> v]]

init_buffer(c) ==
    [c EXCEPT !.buffer = Grid(c.screen.width, c.screen.height, OFF)]

\* TextCanvas(width, height), for width >= 1 and height >= 1.
TextCanvas(width, height) ==
    init_buffer([output |-> Surface(width, height),
                 screen |-> Surface(width * 2, height * 4),
                 buffer |-> <<>>,
                 color_buffer |-> <<>>,
                 text_buffer |-> <<>>,
                 is_inverted |-> FALSE,
                 color |-> Color])

check_output_bounds(c, x, y) ==
    0 <= x /\ x < c.output.width /\ 0 <= y /\ y < c.output.height

check_screen_bounds(c, x, y) ==
    0 <= x /\ x < c.screen.width /\ 0 <= y /\ y < c.screen.height

\* iter_buffer(): the screen coordinates <<x, y>>, y outer, x inner.
iter_buffer(c) ==
    [i \in 1..(c.screen.width * c.screen.height) |->
        <<(i - 1) % c.screen.width, (i - 1) \div c.screen.width>>]

is_colorized(c) == Len(c.color_buffer) # 0
is_textual(c) == Len(c.text_buffer) # 0

(***************************************************************************)
(* clear, fill, invert.                                                    *)
(***************************************************************************)
\* Variant: the pixels are cleared through inverted mode.
clear_buffer_through_inverted(c) ==
    [c EXCEPT !.buffer =
        [y \in DOMAIN c.buffer |-> [x \in DOMAIN c.buffer[y] |-> c.is_inverted]]]

clear_buffer(c) ==
    [c EXCEPT !.buffer =
        [y \in DOMAIN c.buffer |-> [x \in DOMAIN c.buffer[y] |-> FALSE]]]

\* Variant: the color buffer is dropped.
clear_color_buffer_dropping(c) == [c EXCEPT !.color_buffer = <<>>]

clear_color_buffer(c) ==
    IF Len(c.color_buffer) # 0
    THEN [c EXCEPT !.color_buffer =
            [y \in DOMAIN c.color_buffer |->
                [x \in DOMAIN c.color_buffer[y] |-> Color]]]
    ELSE c

clear_text_buffer(c) ==
    IF Len(c.text_buffer) # 0
    THEN [c EXCEPT !.text_buffer =
            [y \in DOMAIN c.text_buffer |->
                [x \in DOMAIN c.text_buffer[y] |-> <<>>]]]
    ELSE c

clear(c) == clear_text_buffer(clear_color_buffer(clear_buffer(c)))

\* Variant: the pixels are lit through inverted mode.
fill_through_inverted(c) ==
    [c EXCEPT !.buffer =
        [y \in DOMAIN c.buffer |-> [x \in DOMAIN c.buffer[y] |-> ~c.is_inverted]]]

fill(c) ==
    [c EXCEPT !.buffer =
        [y \in DOMAIN c.buffer |-> [x \in DOMAIN c.buffer[y] |-> TRUE]]]

\* Variant: invert() turns inverted mode on.
invert_on(c) == [c EXCEPT !.is_inverted = TRUE]

invert(c) == [c EXCEPT !.is_inverted = ~c.is_inverted]

(***************************************************************************)
(* set_color, get_pixel, set_pixel.                                        *)
(***************************************************************************)
init_color_buffer(c) ==
    [c EXCEPT !.color_buffer = Grid(c.output.width, c.output.height, Color)]

\* Variant: the color buffer is allocated anew on every call.
set_color_reallocating(c, color) == [init_color_buffer(c) EXCEPT !.color = color]

set_color(c, color) ==
    [(IF ~is_colorized(c) THEN init_color_buffer(c) ELSE c)
        EXCEPT !.color = color]

get_pixel(c, x, y) ==
    IF ~check_screen_bounds(c, x, y) THEN None ELSE Some(c.buffer[y + 1][x + 1])

color_pixel(c, x, y) ==
    [c EXCEPT !.color_buffer[(y \div 4) + 1][(x \div 2) + 1] = c.color]

\* Variant: the color is reset only once the whole 2x4 block is dark.
decolor_pixel_when_dark(c, x, y) ==
    IF \E by \in 0..3, bx \in 0..1 :
          c.buffer[(y \div 4) * 4 + by + 1][(x \div 2) * 2 + bx + 1] = ON
    THEN c
    ELSE [c EXCEPT !.color_buffer[(y \div 4) + 1][(x \div 2) + 1] = Color]

\* Variant: the color entry is left as it is.
decolor_pixel_keeping(c, x, y) == c

decolor_pixel(c, x, y) ==
    [c EXCEPT !.color_buffer[(y \div 4) + 1][(x \div 2) + 1] = Color]

\* Variant: the state is negated when the canvas is NOT inverted.
set_pixel_negated(c, x, y, state) ==
    IF ~check_screen_bounds(c, x, y)
    THEN c
    ELSE LET st == IF ~c.is_inverted THEN ~state ELSE state
             c1 == [c EXCEPT !.buffer[y + 1][x + 1] = st]
         IN  IF is_colorized(c1)
             THEN IF st = TRUE THEN color_pixel(c1, x, y) ELSE decolor_pixel(c1, x, y)
             ELSE c1

\* Variant: only the upper bounds are checked, so that negative coordinates
\* index from the end, as negative list indices do.
set_pixel_from_end(c, x, y, state) ==
    IF x >= c.screen.width \/ y >= c.screen.height
       \/ x < -c.screen.width \/ y < -c.screen.height
    THEN c
    ELSE LET st == IF c.is_inverted THEN ~state ELSE state
             px == x % c.screen.width
             py == y % c.screen.height
             c1 == [c EXCEPT !.buffer[py + 1][px + 1] = st]
         IN  IF is_colorized(c1)
             THEN IF st = TRUE THEN color_pixel(c1, px, py) ELSE decolor_pixel(c1, px, py)
             ELSE c1

set_pixel(c, x, y, state) ==
    IF ~check_screen_bounds(c, x, y)
    THEN c
    ELSE LET st == IF c.is_inverted THEN ~state ELSE state
             c1 == [c EXCEPT !.buffer[y + 1][x + 1] = st]
         IN  IF is_colorized(c1)
             THEN IF st = TRUE THEN color_pixel(c1, x, y) ELSE decolor_pixel(c1, x, y)
             ELSE c1

(***************************************************************************)
(* Text: draw_text, draw_text_vertical, merge_text, merge_text_vertical.   *)
(***************************************************************************)
\* Variant: the text buffer gets the dimensions of the screen.
init_text_buffer_by_screen(c) ==
    [c EXCEPT !.text_buffer = Grid(c.screen.width, c.screen.height, <<>>)]

init_text_buffer(c) ==
    [c EXCEPT !.text_buffer = Grid(c.output.width, c.output.height, <<>>)]

draw_char(c, char, x, y, merge) ==
    IF ~check_output_bounds(c, x, y)
    THEN c
    ELSE IF char = <<32>>
         THEN IF merge
              THEN c
              ELSE [c EXCEPT !.text_buffer[y + 1][x + 1] = <<>>]
         ELSE [c EXCEPT !.text_buffer[y + 1][x + 1] = format(c.color, char)]

\* Variant: the loop ends at the first character outside the output.
RECURSIVE draw_chars_until_edge(_, _, _, _, _, _, _)
draw_chars_until_edge(c, text, i, x, y, merge, vertical) ==
    IF i > Len(text) \/ ~check_output_bounds(c, x, y)
    THEN c
    ELSE draw_chars_until_edge(draw_char(c, <<text[i]>>, x, y, merge), text, i + 1,
                               IF vertical THEN x ELSE x + 1,
                               IF vertical THEN y + 1 ELSE y,
                               merge, vertical)

\* "for char in text: self._draw_char(char, x, y, merge); x += 1" (or y += 1),
\* from the i-th character on.
RECURSIVE draw_chars(_, _, _, _, _, _, _)
draw_chars(c, text, i, x, y, merge, vertical) ==
    IF i > Len(text)
    THEN c
    ELSE draw_chars(draw_char(c, <<text[i]>>, x, y, merge), text, i + 1,
                    IF vertical THEN x ELSE x + 1,
                    IF vertical THEN y + 1 ELSE y,
                    merge, vertical)

draw_text(c, text, x, y) ==
    draw_chars(IF ~is_textual(c) THEN init_text_buffer(c) ELSE c,
               text, 1, x, y, FALSE, FALSE)

draw_text_vertical(c, text, x, y) ==
    draw_chars(IF ~is_textual(c) THEN init_text_buffer(c) ELSE c,
               text, 1, x, y, FALSE, TRUE)

merge_text(c, text, x, y) ==
    draw_chars(IF ~is_textual(c) THEN init_text_buffer(c) ELSE c,
               text, 1, x, y, TRUE, FALSE)

merge_text_vertical(c, text, x, y) ==
    draw_chars(IF ~is_textual(c) THEN init_text_buffer(c) ELSE c,
               text, 1, x, y, TRUE, TRUE)

(***************************************************************************)
(* to_string: text layer over pixel layer, one Braille glyph per 2x4 block.*)
(***************************************************************************)
get_text_char(c, x, y) ==
    IF is_textual(c) THEN c.text_buffer[y + 1][x + 1] ELSE <<>>

\* Sum of the offsets of the pixels of the block that are on, rows from `y` on
\* and, in row y, columns from `x` on (0-based).
RECURSIVE braille_offsets(_, _, _)
braille_offsets(pixel_block, y, x) ==
    IF y >= Len(pixel_block)
    THEN 0
    ELSE IF x >= Len(pixel_block[y + 1])
         THEN braille_offsets(pixel_block, y + 1, 0)
         ELSE (IF pixel_block[y + 1][x + 1] = ON
               THEN BRAILLE_UNICODE_OFFSET_MAP[y + 1][x + 1]
               ELSE 0)
              + braille_offsets(pixel_block, y, x + 1)

\* chr(braille_char) is the one-character string of that code point.
pixel_block_to_braille_char(pixel_block) ==
    <<BRAILLE_UNICODE_0 + braille_offsets(pixel_block, 0, 0)>>

color_pixel_char(c, x, y, pixel_char) ==
    IF is_colorized(c)
    THEN format(c.color_buffer[y + 1][x + 1], pixel_char)
    ELSE pixel_char

\* Variant: the 2x4 blocks top to bottom, then left to right.
iter_buffer_by_blocks_tblr(c) ==
    [k \in 1..((c.screen.height \div 4) * (c.screen.width \div 2)) |->
        LET x == ((k - 1) \div (c.screen.height \div 4)) * 2
            y == ((k - 1) % (c.screen.height \div 4)) * 4
        IN  <<<<c.buffer[y + 1][x + 1], c.buffer[y + 1][x + 2]>>,
              <<c.buffer[y + 2][x + 1], c.buffer[y + 2][x + 2]>>,
              <<c.buffer[y + 3][x + 1], c.buffer[y + 3][x + 2]>>,
              <<c.buffer[y + 4][x + 1], c.buffer[y + 4][x + 2]>>>>]

\* The 2x4 blocks, left to right, top to bottom.
iter_buffer_by_blocks_lrtb(c) ==
    [k \in 1..((c.screen.height \div 4) * (c.screen.width \div 2)) |->
        LET y == ((k - 1) \div (c.screen.width \div 2)) * 4
            x == ((k - 1) % (c.screen.width \div 2)) * 2
        IN  <<<<c.buffer[y + 1][x + 1], c.buffer[y + 1][x + 2]>>,
              <<c.buffer[y + 2][x + 1], c.buffer[y + 2][x + 2]>>,
              <<c.buffer[y + 3][x + 1], c.buffer[y + 3][x + 2]>>,
              <<c.buffer[y + 4][x + 1], c.buffer[y + 4][x + 2]>>>>]

\* The loop of to_string from the i-th block on (i counts from 0), res so far.
RECURSIVE to_string_loop(_, _, _, _)
to_string_loop(c, blocks, i, res) ==
    IF i >= Len(blocks)
    THEN res
    ELSE LET x == i % c.output.width
             y == i \div c.output.width
             text_char == get_text_char(c, x, y)
             cell == IF text_char # <<>>
                     THEN text_char
                     ELSE color_pixel_char(c, x, y,
                              pixel_block_to_braille_char(blocks[i + 1]))
             eol == IF (i + 1) % c.output.width = 0 THEN <<10>> ELSE <<>>
         IN  to_string_loop(c, blocks, i + 1, res \o cell \o eol)

to_string(c) == to_string_loop(c, iter_buffer_by_blocks_lrtb(c), 0, <<>>)

(***************************************************************************)
(* Drawing primitives.  The coordinates a primitive hands to               *)
(* set_pixel(x, y, True) do not depend on the canvas: each primitive is    *)
(* given by the sequence of those coordinates, in call order, and by the   *)
(* canvas the calls leave.                                                 *)
(***************************************************************************)
abs(n) == IF n < 0 THEN -n ELSE n
min(a, b) == IF a <= b THEN a ELSE b
max(a, b) == IF a >= b THEN a ELSE b

cx(c) == c.screen.width \div 2
cy(c) == c.screen.height \div 2

\* self.set_pixel(x, y, True) for the i-th to the j-th coordinates of
\* `pixels`, in order: the first half of the calls, then the second half on
\* the canvas the first half left.  (The second half is written as a function
\* of that canvas so that the first half is evaluated before it.)
RECURSIVE set_pixel_calls(_, _, _, _)
set_pixel_calls(c, pixels, i, j) ==
    IF i > j THEN c
    ELSE IF i = j THEN set_pixel(c, pixels[i][1], pixels[i][2], TRUE)
    ELSE LET half == (i + j) \div 2
             first == set_pixel_calls(c, pixels, i, half)
         IN  [before \in {first} |->
                 set_pixel_calls(before, pixels, half + 1, j)][first]

\* self.set_pixel(x, y, True) for the coordinates of `pixels` from the i-th on.
set_pixels(c, pixels, i) == set_pixel_calls(c, pixels, i, Len(pixels))

\* "for v in range(from, to + 1)": the coordinates (x, v), or (v, y).
line_range(from, to, fixed, vertical) ==
    [k \in 1..(IF to >= from THEN to - from + 1 ELSE 0) |->
        IF vertical THEN <<fixed, from + k - 1>> ELSE <<from + k - 1, fixed>>]

\* Variant of the loop: the error is not updated on a step in y.
RECURSIVE bresenham_loop_keeping_error(_, _, _, _, _, _, _, _, _, _)
bresenham_loop_keeping_error(x1, y1, x2, y2, dx, dy, sx, sy, error, pixels) ==
    LET drawn == Append(pixels, <<x1, y1>>)
        e2 == 2 * error
    IN  IF x1 = x2 /\ y1 = y2
        THEN [pixels |-> drawn, exit |-> "target"]
        ELSE IF e2 >= dy /\ x1 = x2
        THEN [pixels |-> drawn, exit |-> "x"]
        ELSE LET error_x == IF e2 >= dy THEN error + dy ELSE error
                 next_x == IF e2 >= dy THEN x1 + sx ELSE x1
             IN  IF e2 <= dx /\ y1 = y2
                 THEN [pixels |-> drawn, exit |-> "y"]
                 ELSE bresenham_loop_keeping_error(
                          next_x, IF e2 <= dx THEN y1 + sy ELSE y1, x2, y2,
                          dx, dy, sx, sy, error_x, drawn)

\* The "while True" loop of _bresenham_line: the coordinates drawn and the
\* exit taken ("target": both coordinates equal the target; "x", "y": the
\* guards of the two steps).
RECURSIVE bresenham_loop(_, _, _, _, _, _, _, _, _, _)
bresenham_loop(x1, y1, x2, y2, dx, dy, sx, sy, error, pixels) ==
    LET drawn == Append(pixels, <<x1, y1>>)
        e2 == 2 * error
    IN  IF x1 = x2 /\ y1 = y2
        THEN [pixels |-> drawn, exit |-> "target"]
        ELSE IF e2 >= dy /\ x1 = x2
        THEN [pixels |-> drawn, exit |-> "x"]
        ELSE LET error_x == IF e2 >= dy THEN error + dy ELSE error
                 next_x == IF e2 >= dy THEN x1 + sx ELSE x1
             IN  IF e2 <= dx /\ y1 = y2
                 THEN [pixels |-> drawn, exit |-> "y"]
                 ELSE bresenham_loop(
                          next_x, IF e2 <= dx THEN y1 + sy ELSE y1, x2, y2,
                          dx, dy, sx, sy,
                          IF e2 <= dx THEN error_x + dx ELSE error_x, drawn)

\* Variant: the straight cases stop one short of the far end.
bresenham_line_pixels_half_open(x1, y1, x2, y2) ==
    LET dx == abs(x2 - x1)
        sx == IF x1 < x2 THEN 1 ELSE -1
        dy == -abs(y2 - y1)
        sy == IF y1 < y2 THEN 1 ELSE -1
    IN  IF dx = 0
        THEN [pixels |-> line_range(min(y1, y2), max(y1, y2) - 1, x1, TRUE),
              exit |-> "vertical"]
        ELSE IF dy = 0
        THEN [pixels |-> line_range(min(x1, x2), max(x1, x2) - 1, y1, FALSE),
              exit |-> "horizontal"]
        ELSE bresenham_loop(x1, y1, x2, y2, dx, dy, sx, sy, dx + dy, <<>>)

\* The set_pixel calls of _bresenham_line.
bresenham_line_pixels(x1, y1, x2, y2) ==
    LET dx == abs(x2 - x1)
        sx == IF x1 < x2 THEN 1 ELSE -1
        dy == -abs(y2 - y1)
        sy == IF y1 < y2 THEN 1 ELSE -1
    IN  IF dx = 0
        THEN [pixels |-> line_range(min(y1, y2), max(y1, y2), x1, TRUE),
              exit |-> "vertical"]
        ELSE IF dy = 0
        THEN [pixels |-> line_range(min(x1, x2), max(x1, x2), y1, FALSE),
              exit |-> "horizontal"]
        ELSE bresenham_loop(x1, y1, x2, y2, dx, dy, sx, sy, dx + dy, <<>>)

bresenham_line(c, x1, y1, x2, y2) ==
    set_pixels(c, bresenham_line_pixels(x1, y1, x2, y2).pixels, 1)

stroke_line_pixels(x1, y1, x2, y2) == bresenham_line_pixels(x1, y1, x2, y2).pixels

stroke_line(c, x1, y1, x2, y2) == bresenham_line(c, x1, y1, x2, y2)

\* fill_rect: the set_pixel coordinates of `for y in range(y, y + height):
\* stroke_line(x, y, x + width - 1, y)`, in call order, from row `row` on.
RECURSIVE fill_rect_rows(_, _, _, _, _)
fill_rect_rows(x, y, width, height, row) ==
    IF row >= y + height THEN <<>>
    ELSE stroke_line_pixels(x, row, x + width - 1, row)
             \o fill_rect_rows(x, y, width, height, row + 1)

fill_rect_pixels(x, y, width, height) == fill_rect_rows(x, y, width, height, y)

fill_rect(c, x, y, width, height) ==
    set_pixels(c, fill_rect_pixels(x, y, width, height), 1)

stroke_triangle_pixels(x1, y1, x2, y2, x3, y3) ==
    stroke_line_pixels(x1, y1, x2, y2)
        \o stroke_line_pixels(x2, y2, x3, y3)
        \o stroke_line_pixels(x3, y3, x1, y1)

stroke_triangle(c, x1, y1, x2, y2, x3, y3) ==
    set_pixels(c, stroke_triangle_pixels(x1, y1, x2, y2, x3, y3), 1)

\* _is_point_in_triangle on integer coordinates, where the comparisons with
\* 0.0 are exact.
is_point_in_triangle(px, py, p0x, p0y, p1x, p1y, p2x, p2y) ==
    LET s == (p0x - p2x) * (py - p2y) - (p0y - p2y) * (px - p2x)
        t == (p1x - p0x) * (py - p0y) - (p1y - p0y) * (px - p0x)
        d == (p2x - p1x) * (py - p1y) - (p2y - p1y) * (px - p1x)
    IN  IF ((s < 0) # (t < 0)) /\ s # 0 /\ t # 0 THEN FALSE
        ELSE d = 0 \/ ((d < 0) = (s + t <= 0))

\* The concatenation of the sequences seqs[i], seqs[i + 1], ...
RECURSIVE concat(_, _)
concat(seqs, i) ==
    IF i > Len(seqs) THEN <<>> ELSE seqs[i] \o concat(seqs, i + 1)

\* One column of the bounding-box scan of fill_triangle: the points (x, y),
\* y in range(min_y, max_y + 1), that pass the point-in-triangle test.
fill_triangle_column(x, min_y, max_y, x1, y1, x2, y2, x3, y3) ==
    SelectSeq([k \in 1..(max_y - min_y + 1) |-> <<x, min_y + k - 1>>],
              LAMBDA p : is_point_in_triangle(p[1], p[2],
                                              x1, y1, x2, y2, x3, y3))

\* fill_triangle: the outline, then the columns x in range(min_x, max_x + 1)
\* of the bounding box.
fill_triangle_pixels(x1, y1, x2, y2, x3, y3) ==
    LET min_x == min(x1, min(x2, x3))
        max_x == max(x1, max(x2, x3))
        min_y == min(y1, min(y2, y3))
        max_y == max(y1, max(y2, y3))
    IN  stroke_triangle_pixels(x1, y1, x2, y2, x3, y3)
            \o concat([k \in 1..(max_x - min_x + 1) |->
                          fill_triangle_column(min_x + k - 1, min_y, max_y,
                                               x1, y1, x2, y2, x3, y3)], 1)

fill_triangle(c, x1, y1, x2, y2, x3, y3) ==
    set_pixels(c, fill_triangle_pixels(x1, y1, x2, y2, x3, y3), 1)

\* _compute_ngon_vertices for a square at angle 0.0, the one case in which
\* the rounded sines and cosines are the integers 0, 1 and -1: right, top,
\* left, bottom (screen Y points down).
compute_ngon_vertices(x, y, radius, sides) ==
    <<(<<x + radius, y>>), (<<x, y - radius>>),
      (<<x - radius, y>>), (<<x, y + radius>>)>>

\* join_vertices: what one side of the n-gon draws.
join_vertices(c, from, to, filled) ==
    IF filled
    THEN fill_triangle_pixels(cx(c), cy(c), from[1], from[2], to[1], to[2])
    ELSE stroke_line_pixels(from[1], from[2], to[1], to[2])

\* _bresenham_circle: the values (x, y) of the iterations of `while x >= y`,
\* from the iteration that starts with x, y and t1 on.  t1 is the float
\* radius / 16 plus integers: t1_16 is 16 * t1, an integer.
RECURSIVE bresenham_circle_steps(_, _, _)
bresenham_circle_steps(x, y, t1_16) ==
    IF ~(x >= y) THEN <<>>
    ELSE LET next_y == y + 1
             next_t1 == t1_16 + 16 * next_y
             t2 == next_t1 - 16 * x
         IN  <<(<<x, y>>)>>
                 \o bresenham_circle_steps(IF t2 >= 0 THEN x - 1 ELSE x, next_y,
                                           IF t2 >= 0 THEN t2 ELSE next_t1)

\* Variant of one iteration: a filled circle connects only the two pairs of
\* points at cy - y and cy + y.
bresenham_circle_step_two_spans(c_x, c_y, x, y, filled) ==
    IF filled
    THEN stroke_line_pixels(c_x - x, c_y - y, c_x + x, c_y - y)
             \o stroke_line_pixels(c_x + x, c_y + y, c_x - x, c_y + y)
    ELSE << <<c_x - x, c_y - y>>, <<c_x + x, c_y - y>>,
            <<c_x + x, c_y + y>>, <<c_x - x, c_y + y>>,
            <<c_x - y, c_y - x>>, <<c_x + y, c_y - x>>,
            <<c_x + y, c_y + x>>, <<c_x - y, c_y + x>> >>

\* The set_pixel coordinates of one iteration, in call order; (c_x, c_y) is
\* the centre, the `cx, cy` of the code.
bresenham_circle_step(c_x, c_y, x, y, filled) ==
    IF filled
    THEN stroke_line_pixels(c_x - x, c_y - y, c_x + x, c_y - y)
             \o stroke_line_pixels(c_x + x, c_y + y, c_x - x, c_y + y)
             \o stroke_line_pixels(c_x - y, c_y - x, c_x + y, c_y - x)
             \o stroke_line_pixels(c_x + y, c_y + x, c_x - y, c_y + x)
    ELSE << <<c_x - x, c_y - y>>, <<c_x + x, c_y - y>>,
            <<c_x + x, c_y + y>>, <<c_x - x, c_y + y>>,
            <<c_x - y, c_y - x>>, <<c_x + y, c_y - x>>,
            <<c_x + y, c_y + x>>, <<c_x - y, c_y + x>> >>

bresenham_circle_pixels(x, y, radius, filled) ==
    LET steps == bresenham_circle_steps(radius, 0, radius)
    IN  concat([k \in 1..Len(steps) |->
                   bresenham_circle_step(x, y, steps[k][1], steps[k][2], filled)],
               1)

bresenham_circle(c, x, y, radius, filled) ==
    set_pixels(c, bresenham_circle_pixels(x, y, radius, filled), 1)

stroke_circle(c, x, y, radius) == bresenham_circle(c, x, y, radius, FALSE)

fill_circle(c, x, y, radius) == bresenham_circle(c, x, y, radius, TRUE)

\* The sides of _ngon in drawing order: each vertex of vertices[1:] is
\* joined to the one before it, then the last vertex to the first.
ngon_sides(c, vertices, filled) ==
    concat([k \in 1..Len(vertices) |->
               join_vertices(c, vertices[k],
                             vertices[(k % Len(vertices)) + 1], filled)], 1)

\* A variant of _ngon that draws its first vertex before it validates sides.
ngon_validating_late(c, x, y, radius, sides, filled) ==
    IF sides < 3
    THEN [canvas |-> set_pixel(c, x + radius, y, TRUE),
          error |-> <<"ValueError">>]
    ELSE [canvas |-> set_pixels(c, ngon_sides(c,
              compute_ngon_vertices(x, y, radius, sides), filled), 1),
          error |-> <<>>]

\* _ngon: the canvas after the call and the error raised, if any.
ngon(c, x, y, radius, sides, filled) ==
    IF sides < 3
    THEN [canvas |-> c, error |-> <<"ValueError">>]
    ELSE [canvas |-> set_pixels(c, ngon_sides(c,
              compute_ngon_vertices(x, y, radius, sides), filled), 1),
          error |-> <<>>]

stroke_ngon(c, x, y, radius, sides) == ngon(c, x, y, radius, sides, FALSE)

fill_ngon(c, x, y, radius, sides) == ngon(c, x, y, radius, sides, TRUE)

(***************************************************************************)
(* Compositing: draw_canvas, merge_canvas.  `c` is self, `other` the       *)
(* canvas drawn onto it, a second canvas instance.                         *)
(***************************************************************************)
\* Variant: the color is copied for every in-bounds source pixel.
composite_pixel_color_always(c, other, x, y, offset_x, offset_y, merge) ==
    LET dx == offset_x + x
        dy == offset_y + y
    IN  IF ~check_screen_bounds(c, dx, dy)
        THEN c
        ELSE LET pixel == other.buffer[y + 1][x + 1]
                 c1 == IF ~merge \/ pixel = ON
                       THEN [c EXCEPT !.buffer[dy + 1][dx + 1] = pixel]
                       ELSE c
                 c2 == IF is_colorized(other)
                       THEN [c1 EXCEPT
                               !.color_buffer[(dy \div 4) + 1][(dx \div 2) + 1] =
                                   other.color_buffer[(y \div 4) + 1][(x \div 2) + 1]]
                       ELSE c1
             IN  IF is_textual(other)
                 THEN LET text == other.text_buffer[(y \div 4) + 1][(x \div 2) + 1]
                      IN  IF ~merge \/ text # <<>>
                          THEN [c2 EXCEPT
                                  !.text_buffer[(dy \div 4) + 1][(dx \div 2) + 1] = text]
                          ELSE c2
                 ELSE c2

\* Variant: a dark source pixel writes Color() instead of the source color.
composite_pixel_decoloring(c, other, x, y, offset_x, offset_y, merge) ==
    LET dx == offset_x + x
        dy == offset_y + y
    IN  IF ~check_screen_bounds(c, dx, dy)
        THEN c
        ELSE LET pixel == other.buffer[y + 1][x + 1]
                 c1 == IF ~merge \/ pixel = ON
                       THEN LET c2 == [c EXCEPT !.buffer[dy + 1][dx + 1] = pixel]
                            IN  IF is_colorized(other)
                                THEN [c2 EXCEPT
                                        !.color_buffer[(dy \div 4) + 1][(dx \div 2) + 1] =
                                            IF pixel = ON
                                            THEN other.color_buffer[(y \div 4) + 1][(x \div 2) + 1]
                                            ELSE Color]
                                ELSE c2
                       ELSE c
             IN  IF is_textual(other)
                 THEN LET text == other.text_buffer[(y \div 4) + 1][(x \div 2) + 1]
                      IN  IF ~merge \/ text # <<>>
                          THEN [c1 EXCEPT
                                  !.text_buffer[(dy \div 4) + 1][(dx \div 2) + 1] = text]
                          ELSE c1
                 ELSE c1

\* Variant: an empty source text entry is never copied.
composite_pixel_text_nonempty(c, other, x, y, offset_x, offset_y, merge) ==
    LET dx == offset_x + x
        dy == offset_y + y
    IN  IF ~check_screen_bounds(c, dx, dy)
        THEN c
        ELSE LET pixel == other.buffer[y + 1][x + 1]
                 c1 == IF ~merge \/ pixel = ON
                       THEN LET c2 == [c EXCEPT !.buffer[dy + 1][dx + 1] = pixel]
                            IN  IF is_colorized(other)
                                THEN [c2 EXCEPT
                                        !.color_buffer[(dy \div 4) + 1][(dx \div 2) + 1] =
                                            other.color_buffer[(y \div 4) + 1][(x \div 2) + 1]]
                                ELSE c2
                       ELSE c
             IN  IF is_textual(other)
                 THEN LET text == other.text_buffer[(y \div 4) + 1][(x \div 2) + 1]
                      IN  IF text # <<>>
                          THEN [c1 EXCEPT
                                  !.text_buffer[(dy \div 4) + 1][(dx \div 2) + 1] = text]
                          ELSE c1
                 ELSE c1

\* Variant: the pixel is copied through the destination's inverted mode.
composite_pixel_through_inverted(c, other, x, y, offset_x, offset_y, merge) ==
    LET dx == offset_x + x
        dy == offset_y + y
    IN  IF ~check_screen_bounds(c, dx, dy)
        THEN c
        ELSE LET pixel == other.buffer[y + 1][x + 1]
                 c1 == IF ~merge \/ pixel = ON
                       THEN LET c2 == [c EXCEPT !.buffer[dy + 1][dx + 1] =
                                          IF c.is_inverted THEN ~pixel ELSE pixel]
                            IN  IF is_colorized(other)
                                THEN [c2 EXCEPT
                                        !.color_buffer[(dy \div 4) + 1][(dx \div 2) + 1] =
                                            other.color_buffer[(y \div 4) + 1][(x \div 2) + 1]]
                                ELSE c2
                       ELSE c
             IN  IF is_textual(other)
                 THEN LET text == other.text_buffer[(y \div 4) + 1][(x \div 2) + 1]
                      IN  IF ~merge \/ text # <<>>
                          THEN [c1 EXCEPT
                                  !.text_buffer[(dy \div 4) + 1][(dx \div 2) + 1] = text]
                          ELSE c1
                 ELSE c1

\* The body of the loop of draw_canvas_onto_canvas for source pixel (x, y).
composite_pixel(c, other, x, y, offset_x, offset_y, merge) ==
    LET dx == offset_x + x
        dy == offset_y + y
    IN  IF ~check_screen_bounds(c, dx, dy)
        THEN c
        ELSE LET pixel == other.buffer[y + 1][x + 1]
                 c1 == IF ~merge \/ pixel = ON
                       THEN LET c2 == [c EXCEPT !.buffer[dy + 1][dx + 1] = pixel]
                            IN  IF is_colorized(other)
                                THEN [c2 EXCEPT
                                        !.color_buffer[(dy \div 4) + 1][(dx \div 2) + 1] =
                                            other.color_buffer[(y \div 4) + 1][(x \div 2) + 1]]
                                ELSE c2
                       ELSE c
             IN  IF is_textual(other)
                 THEN LET text == other.text_buffer[(y \div 4) + 1][(x \div 2) + 1]
                      IN  IF ~merge \/ text # <<>>
                          THEN [c1 EXCEPT
                                  !.text_buffer[(dy \div 4) + 1][(dx \div 2) + 1] = text]
                          ELSE c1
                 ELSE c1

\* The loop over the source pixels `pixels`, from the i-th one on.
RECURSIVE composite_loop(_, _, _, _, _, _, _)
composite_loop(c, other, pixels, i, offset_x, offset_y, merge) ==
    IF i > Len(pixels)
    THEN c
    ELSE composite_loop(
             composite_pixel(c, other, pixels[i][1], pixels[i][2],
                             offset_x, offset_y, merge),
             other, pixels, i + 1, offset_x, offset_y, merge)

\* Variant: the color buffer is allocated whatever the source holds.
composite_init_coloring(c, other) ==
    LET c1 == IF ~is_colorized(c) THEN init_color_buffer(c) ELSE c
    IN  IF ~is_textual(c1) /\ is_textual(other) THEN init_text_buffer(c1) ELSE c1

\* The buffers of self that the call allocates before the loop.
composite_init(c, other) ==
    LET c1 == IF ~is_colorized(c) /\ is_colorized(other)
              THEN init_color_buffer(c) ELSE c
    IN  IF ~is_textual(c1) /\ is_textual(other) THEN init_text_buffer(c1) ELSE c1

draw_canvas_onto_canvas(c, other, dx, dy, merge) ==
    composite_loop(composite_init(c, other), other, iter_buffer(other), 1,
                   dx, dy, merge)

\* The loop when `canvas` is `self`: each iteration reads the source pixel
\* from the buffers as the iterations before it left them.
RECURSIVE composite_loop_onto_itself(_, _, _, _, _, _)
composite_loop_onto_itself(c, pixels, i, offset_x, offset_y, merge) ==
    IF i > Len(pixels)
    THEN c
    ELSE composite_loop_onto_itself(
             composite_pixel(c, c, pixels[i][1], pixels[i][2],
                             offset_x, offset_y, merge),
             pixels, i + 1, offset_x, offset_y, merge)

\* self.draw_canvas_onto_canvas(self, dx, dy, merge): nothing is allocated,
\* as source and destination have the same buffers.
draw_canvas_onto_itself(c, dx, dy, merge) ==
    composite_loop_onto_itself(c, iter_buffer(c), 1, dx, dy, merge)

\* Variant: draw_canvas in merge mode.
draw_canvas_merging(c, other, dx, dy) ==
    draw_canvas_onto_canvas(c, other, dx, dy, TRUE)

draw_canvas(c, other, dx, dy) == draw_canvas_onto_canvas(c, other, dx, dy, FALSE)

\* Variant: merge_canvas in override mode.
merge_canvas_overriding(c, other, dx, dy) ==
    draw_canvas_onto_canvas(c, other, dx, dy, FALSE)

merge_canvas(c, other, dx, dy) == draw_canvas_onto_canvas(c, other, dx, dy, TRUE)

(***************************************************************************)
(* The state machine: one canvas, the calls made on it.  pre is the canvas *)
(* before the last call and last names that call and its arguments.        *)
(***************************************************************************)
\* Coordinate arguments: those in bounds and, on each side, the one that
\* lies Margin outside.
Around(size) == {-Margin} \cup (0..(size - 1)) \cup {size - 1 + Margin}

ScreenXs(c) == Around(c.screen.width)
ScreenYs(c) == Around(c.screen.height)

OutputXs(c) == Around(c.output.width)
OutputYs(c) == Around(c.output.height)

\* The strings handed to the text operations: "a" and " b".
Texts == {<<97>>, <<32, 98>>}

\* A call: its name and its arguments (those the call does not take are defaults).
NoCall ==
    [op |-> "new", x |-> 0, y |-> 0, state |-> FALSE, color |-> Color,
     text |-> <<>>, other |-> <<>>, args |-> <<>>, error |-> <<>>]

Call(op, x, y, state, color) == [NoCall EXCEPT
    !.op = op, !.x = x, !.y = y, !.state = state, !.color = color]

TextCall(op, text, x, y) == [NoCall EXCEPT
    !.op = op, !.x = x, !.y = y, !.text = text]

CanvasCall(op, other, dx, dy) == [NoCall EXCEPT
    !.op = op, !.x = dx, !.y = dy, !.other = other]

\* A call of a drawing primitive: args are its arguments, in order.
ShapeCall(op, args) == [NoCall EXCEPT !.op = op, !.args = args]

\* A canvas as set_color, set_pixel and draw_text leave it: red draw color,
\* pixel (1, 1) lit in red, "a" in cell (0, 0).
Drawn(c) == draw_text(set_pixel(set_color(c, red), 1, 1, TRUE), <<97>>, 0, 0)

\* The canvas is new, or has been drawn on.
Init ==
    /\ \E s \in Sizes :
          canvas \in {TextCanvas(s[1], s[2]), Drawn(TextCanvas(s[1], s[2]))}
    /\ pre = canvas
    /\ last = NoCall
    /\ nops = 0

Step(c, call) ==
    /\ nops < MaxOps
    /\ canvas' = c
    /\ pre' = canvas
    /\ last' = call
    /\ nops' = nops + 1

SetPixel ==
    \E x \in ScreenXs(canvas), y \in ScreenYs(canvas), state \in BOOLEAN :
        Step(set_pixel(canvas, x, y, state), Call("set_pixel", x, y, state, Color))

SetColor ==
    \E color \in Colors :
        Step(set_color(canvas, color), Call("set_color", 0, 0, FALSE, color))

Invert == Step(invert(canvas), Call("invert", 0, 0, FALSE, Color))

Clear == Step(clear(canvas), Call("clear", 0, 0, FALSE, Color))

Fill == Step(fill(canvas), Call("fill", 0, 0, FALSE, Color))

DrawText ==
    \E text \in Texts, x \in OutputXs(canvas), y \in OutputYs(canvas) :
        Step(draw_text(canvas, text, x, y), TextCall("draw_text", text, x, y))

DrawTextVertical ==
    \E text \in Texts, x \in OutputXs(canvas), y \in OutputYs(canvas) :
        Step(draw_text_vertical(canvas, text, x, y),
             TextCall("draw_text_vertical", text, x, y))

MergeText ==
    \E text \in Texts, x \in OutputXs(canvas), y \in OutputYs(canvas) :
        Step(merge_text(canvas, text, x, y), TextCall("merge_text", text, x, y))

MergeTextVertical ==
    \E text \in Texts, x \in OutputXs(canvas), y \in OutputYs(canvas) :
        Step(merge_text_vertical(canvas, text, x, y),
             TextCall("merge_text_vertical", text, x, y))

\* The calls that write pixels and colors, and draw_text.
Next ==
    \/ SetPixel
    \/ SetColor
    \/ Invert
    \/ Clear
    \/ Fill
    \/ DrawText

Spec == Init /\ [][Next]_vars

\* The calls that write text, and set_color.
NextText ==
    \/ SetColor
    \/ DrawText
    \/ DrawTextVertical
    \/ MergeText
    \/ MergeTextVertical

SpecText == Init /\ [][NextText]_vars

(***************************************************************************)
(* Compositing state machine: a canvas that earlier calls have drawn on    *)
(* receives draw_canvas and merge_canvas calls.  The canvases are given by *)
(* the calls that build them from a newly constructed one.                 *)
(***************************************************************************)
\* "ab" in green over a fully lit 2x1 canvas whose two cells are green.
DestinationWide ==
    draw_text(
        fill(set_pixel(set_pixel(set_color(TextCanvas(2, 1), green), 0, 0, TRUE),
                       3, 3, TRUE)),
        <<97, 98>>, 0, 0)

\* The same on a 1x2 canvas, the text vertical.
DestinationTall ==
    draw_text_vertical(
        fill(set_pixel(set_pixel(set_color(TextCanvas(1, 2), green), 0, 0, TRUE),
                       1, 7, TRUE)),
        <<97, 98>>, 0, 0)

Destinations ==
    { TextCanvas(2, 1),
      set_pixel(set_pixel(TextCanvas(2, 1), 1, 0, TRUE), 2, 3, TRUE),
      DestinationWide,
      DestinationTall }

\* A 2x1 canvas: cell 0 red with one pixel on, cell 1 colorless and dark;
\* text "b" (in red) in cell 1 only.
SourceWide ==
    draw_text(set_pixel(set_color(TextCanvas(2, 1), red), 1, 1, TRUE),
              <<98>>, 1, 0)

\* The same on a 1x2 canvas.
SourceTall ==
    draw_text(set_pixel(set_color(TextCanvas(1, 2), red), 1, 1, TRUE),
              <<98>>, 0, 1)

Sources ==
    { fill(TextCanvas(1, 1)),
      set_pixel(set_pixel(TextCanvas(2, 1), 0, 0, TRUE), 3, 0, TRUE),
      SourceWide,
      SourceTall }

Offsets == (-MaxDx..MaxDx) \X ((-MaxDy..MaxDy) \cup {-4, 4})

InitComposite ==
    /\ canvas \in Destinations
    /\ pre = canvas
    /\ last = NoCall
    /\ nops = 0

StepComposite(c, call) ==
    /\ nops < MaxComposite
    /\ canvas' = c
    /\ pre' = canvas
    /\ last' = call
    /\ nops' = nops + 1

DrawCanvas ==
    \E other \in Sources, d \in Offsets :
        StepComposite(draw_canvas(canvas, other, d[1], d[2]),
                      CanvasCall("draw_canvas", other, d[1], d[2]))

MergeCanvas ==
    \E other \in Sources, d \in Offsets :
        StepComposite(merge_canvas(canvas, other, d[1], d[2]),
                      CanvasCall("merge_canvas", other, d[1], d[2]))

NextComposite == DrawCanvas \/ MergeCanvas

\* canvas.draw_canvas(canvas, dx, dy) and canvas.merge_canvas(canvas, dx, dy):
\* the source is the destination itself, which args records.
DrawCanvasOntoItself ==
    \E d \in Offsets, merge \in BOOLEAN :
        StepComposite(
            draw_canvas_onto_itself(canvas, d[1], d[2], merge),
            [CanvasCall(IF merge THEN "merge_canvas" ELSE "draw_canvas",
                        canvas, d[1], d[2])
             EXCEPT !.args = <<"self">>])

\* The destination is a 2x1 canvas with two pixels on, or the full, coloured
\* and lettered one in inverted mode.
InitCompositeAny ==
    /\ canvas \in {set_pixel(set_pixel(TextCanvas(2, 1), 1, 0, TRUE), 2, 3, TRUE),
                   invert(DestinationWide)}
    /\ pre = canvas
    /\ last = NoCall
    /\ nops = 0

NextCompositeAny == DrawCanvas \/ MergeCanvas \/ DrawCanvasOntoItself

SpecCompositeAny == InitCompositeAny /\ [][NextCompositeAny]_vars

SpecComposite == InitComposite /\ [][NextComposite]_vars

(***************************************************************************)
(* Drawing state machines: a 1x1 canvas (a screen of 2x4 pixels), new,     *)
(* drawn on, or drawn on and inverted, receives calls of one drawing       *)
(* primitive.                                                              *)
(***************************************************************************)
InitShape ==
    /\ canvas \in {TextCanvas(1, 1), Drawn(TextCanvas(1, 1)),
                   invert(Drawn(TextCanvas(1, 1)))}
    /\ pre = canvas
    /\ last = NoCall
    /\ nops = 0

StepShape(c, call) ==
    /\ nops < MaxShapes
    /\ canvas' = c
    /\ pre' = canvas
    /\ last' = call
    /\ nops' = nops + 1

StrokeLine ==
    \E x1 \in ScreenXs(canvas), y1 \in ScreenYs(canvas),
       x2 \in ScreenXs(canvas), y2 \in ScreenYs(canvas) :
        StepShape(stroke_line(canvas, x1, y1, x2, y2),
                  ShapeCall("stroke_line", <<x1, y1, x2, y2>>))

NextLine == StrokeLine

FillRect ==
    \E x \in ScreenXs(canvas), y \in ScreenYs(canvas),
       width \in 0..MaxSide, height \in 0..MaxSide :
        StepShape(fill_rect(canvas, x, y, width, height),
                  ShapeCall("fill_rect", <<x, y, width, height>>))

NextRect == FillRect

\* Side counts of n-gons: the invalid ones, and the square.
NgonSides == {0, 2, 4}

StepNgon(op, result, args) ==
    StepShape(result.canvas,
              [ShapeCall(op, args) EXCEPT !.error = result.error])

StrokeNgon ==
    \E x \in ScreenXs(canvas), y \in ScreenYs(canvas),
       radius \in 1..MaxRadius, sides \in NgonSides :
        StepNgon("stroke_ngon", stroke_ngon(canvas, x, y, radius, sides),
                 <<x, y, radius, sides>>)

FillNgon ==
    \E x \in ScreenXs(canvas), y \in ScreenYs(canvas),
       radius \in 1..MaxRadius, sides \in NgonSides :
        StepNgon("fill_ngon", fill_ngon(canvas, x, y, radius, sides),
                 <<x, y, radius, sides>>)

NextNgon == StrokeNgon \/ FillNgon

SpecNgon == InitShape /\ [][NextNgon]_vars

TrianglePoints == (0..MaxTriangle) \X (0..MaxTriangle)

\* The point-in-triangle test is a static method: the state holds its
\* arguments (point, then the three vertices), then its result.
InitTriangle ==
    /\ canvas = TextCanvas(1, 1)
    /\ pre = canvas
    /\ \E p \in TrianglePoints, p0 \in TrianglePoints,
          p1 \in TrianglePoints, p2 \in TrianglePoints :
           last = ShapeCall("arguments", <<p[1], p[2], p0[1], p0[2],
                                           p1[1], p1[2], p2[1], p2[2]>>)
    /\ nops = 0

IsPointInTriangle ==
    /\ last.op = "arguments"
    /\ last' = [last EXCEPT
           !.op = "_is_point_in_triangle",
           !.state = is_point_in_triangle(
               last.args[1], last.args[2], last.args[3], last.args[4],
               last.args[5], last.args[6], last.args[7], last.args[8])]
    /\ nops' = nops + 1
    /\ UNCHANGED <<canvas, pre>>

NextTriangle == IsPointInTriangle

SpecTriangle == InitTriangle /\ [][NextTriangle]_vars

SpecRect == InitShape /\ [][NextRect]_vars

StrokeCircle ==
    \E x \in ScreenXs(canvas), y \in ScreenYs(canvas), radius \in 0..MaxCircle :
        StepShape(stroke_circle(canvas, x, y, radius),
                  ShapeCall("stroke_circle", <<x, y, radius>>))

FillCircle ==
    \E x \in ScreenXs(canvas), y \in ScreenYs(canvas), radius \in 0..MaxCircle :
        StepShape(fill_circle(canvas, x, y, radius),
                  ShapeCall("fill_circle", <<x, y, radius>>))

NextCircle == StrokeCircle \/ FillCircle

SpecCircle == InitShape /\ [][NextCircle]_vars

SpecLine == InitShape /\ [][NextLine]_vars

(***************************************************************************)
(* All the operations that change a canvas, on one 2x1 canvas: a drawing   *)
(* primitive or a composition first, then pixel, colour, text, clear, fill *)
(* and invert calls.                                                       *)
(***************************************************************************)
InitAll ==
    /\ canvas \in {TextCanvas(2, 1), Drawn(TextCanvas(2, 1))}
    /\ pre = canvas
    /\ last = NoCall
    /\ nops = 0

NextAll ==
    \/ SetPixel \/ SetColor \/ Invert \/ Clear \/ Fill
    \/ DrawText \/ DrawTextVertical \/ MergeText \/ MergeTextVertical
    \/ StrokeLine \/ FillRect \/ StrokeNgon \/ FillNgon
    \/ DrawCanvas \/ MergeCanvas

SpecAll == InitAll /\ [][NextAll]_vars

(***************************************************************************)
(* Painting state machine: the calls on one canvas that take no other      *)
(* canvas, on a canvas of one cell.                                        *)
(***************************************************************************)
NextPainting ==
    \/ SetPixel \/ SetColor \/ Invert \/ Clear \/ Fill
    \/ DrawText
    \/ StrokeLine

SpecPainting == InitShape /\ [][NextPainting]_vars

(***************************************************************************)
(* utils.py: GameLoop.loop_fixed and GameLoop.loop_variable.  The state of *)
(* a running loop function is held by `canvas`: the function (loop), the   *)
(* statement it is at (pc), its local variables frame and delta_time, what *)
(* has been written to stdout (one string for each print), and the calls   *)
(* made so far, with the value handed over or received (calls).            *)
(* render_frame is the caller's function: it returns a string or None, or  *)
(* raises KeyboardInterrupt.  Signals delivered while other statements run *)
(* are not modelled.                                                       *)
(***************************************************************************)
\* The frames render_frame returns: "" and "a\n".
Frames == {<<>>, <<97, 10>>}

\* The loop function has been entered: game_loop = GameLoop().
GameLoop(loop) ==
    [loop |-> loop, pc |-> "set_up", frame |-> None,
     delta_time |-> IF loop = "loop_variable" THEN Some("17ms") ELSE None,
     stdout |-> <<>>, calls |-> <<>>]

\* hide_text_cursor(), then clear_screen(): clear(), move_cursor_top_left().
set_up(g) ==
    [g EXCEPT !.stdout = @ \o << <<27, 91, 63, 50, 53, 108>>,
                                 <<27, 91, 50, 74>>,
                                 <<27, 91, 49, 59, 49, 72>> >>,
              !.calls = Append(@, [name |-> "set_up", value |-> None])]

\* frame.removesuffix("\n"), move_cursor_top_left(), print(frame, end="").
update(g, frame) ==
    LET stripped == IF Len(frame) > 0 /\ frame[Len(frame)] = 10
                    THEN SubSeq(frame, 1, Len(frame) - 1)
                    ELSE frame
    IN  [g EXCEPT !.stdout = @ \o << <<27, 91, 49, 59, 49, 72>>, stripped >>,
                  !.calls = Append(@, [name |-> "update", value |-> Some(frame)])]

\* show_text_cursor(), print(flush=True).
tear_down(g) ==
    [g EXCEPT !.stdout = @ \o << <<27, 91, 63, 50, 53, 104>>, <<10>> >>,
              !.calls = Append(@, [name |-> "tear_down", value |-> None])]

\* Variant: KeyboardInterrupt leaves the loop function at once.
render_frame_unhandled(g, outcome) ==
    LET called == [g EXCEPT !.calls = Append(@, [name |-> "render_frame",
                                                 value |-> outcome])]
    IN  IF outcome.raises # None
        THEN [called EXCEPT !.pc = "returned"]
        ELSE IF outcome.returns = None
        THEN [called EXCEPT !.pc = "tear_down"]
        ELSE [called EXCEPT !.pc = "update", !.frame = outcome.returns]

\* `if (frame := render_frame(...)) is None: break` inside `try: ... except
\* KeyboardInterrupt: pass`: the call, and where its outcome leads.
render_frame(g, outcome) ==
    LET called == [g EXCEPT !.calls = Append(@, [name |-> "render_frame",
                                                 value |-> outcome])]
    IN  IF outcome.raises # None
        THEN [called EXCEPT !.pc = "tear_down"]
        ELSE IF outcome.returns = None
        THEN [called EXCEPT !.pc = "tear_down"]
        ELSE [called EXCEPT !.pc = "update", !.frame = outcome.returns]

InitLoop ==
    /\ canvas \in {GameLoop("loop_fixed"), GameLoop("loop_variable")}
    /\ pre = canvas
    /\ last = NoCall
    /\ nops = 0

SetUp ==
    /\ canvas.pc = "set_up"
    /\ canvas' = [set_up(canvas) EXCEPT !.pc = "render_frame"]
    /\ pre' = canvas
    /\ last' = [NoCall EXCEPT !.op = "set_up"]
    /\ nops' = nops

\* render_frame returns one of Frames or None, or raises KeyboardInterrupt.
RenderFrame ==
    /\ canvas.pc = "render_frame"
    /\ \E outcome \in
            {[returns |-> Some(frame), raises |-> None] : frame \in Frames}
                \cup {[returns |-> None, raises |-> None],
                      [returns |-> None, raises |-> Some("KeyboardInterrupt")]} :
          /\ outcome.returns # None => nops < MaxFrames
          /\ canvas' = render_frame(canvas, outcome)
          /\ pre' = canvas
          /\ last' = [NoCall EXCEPT !.op = "render_frame",
                                    !.args = <<outcome>>]
          /\ nops' = IF outcome.returns # None THEN nops + 1 ELSE nops

\* game_loop.update(frame) and the rest of the iteration: loop_fixed sleeps
\* when the time step has not elapsed, loop_variable sets delta_time.
Update ==
    /\ canvas.pc = "update"
    /\ \E early \in IF canvas.loop = "loop_fixed" THEN BOOLEAN ELSE {FALSE} :
          canvas' =
              [update(canvas, canvas.frame[1]) EXCEPT
                  !.pc = "render_frame",
                  !.delta_time = IF canvas.loop = "loop_variable"
                                 THEN Some("time_elapsed") ELSE @,
                  !.calls = IF early
                            THEN Append(@, [name |-> "sleep", value |-> None])
                            ELSE @]
    /\ pre' = canvas
    /\ last' = [NoCall EXCEPT !.op = "update", !.text = canvas.frame[1]]
    /\ nops' = nops

\* game_loop.tear_down(), then the loop function returns.
TearDown ==
    /\ canvas.pc = "tear_down"
    /\ canvas' = [tear_down(canvas) EXCEPT !.pc = "returned"]
    /\ pre' = canvas
    /\ last' = [NoCall EXCEPT !.op = "tear_down"]
    /\ nops' = nops

NextLoop == SetUp \/ RenderFrame \/ Update \/ TearDown

SpecLoop == InitLoop /\ [][NextLoop]_vars

(***************************************************************************)
(* Rendering state machine: to_string is applied to 2x2 canvases that      *)
(* earlier calls have drawn on: two pixels lit, colors, text.              *)
(***************************************************************************)
\* Pixels p and q lit, in red and in green on a colorized canvas.
Painted(c, p, q, colorized) ==
    IF colorized
    THEN set_pixel(set_color(set_pixel(set_color(c, red), p[1], p[2], TRUE), green),
                   q[1], q[2], TRUE)
    ELSE set_pixel(set_pixel(c, p[1], p[2], TRUE), q[1], q[2], TRUE)

\* No text, "a" in one cell, or "ab" in one row with its "a" erased again.
Lettered(c) ==
    {c}
    \cup {draw_text(c, <<97>>, o[1], o[2]) :
            o \in (0..(c.output.width - 1)) \X (0..(c.output.height - 1))}
    \cup {draw_text(draw_text(c, <<97, 98>>, 0, y), <<32>>, 0, y) :
            y \in 0..(c.output.height - 1)}

RenderPixels == (0..3) \X (0..7)

InitRender ==
    /\ \E p \in RenderPixels, q \in RenderPixels, colorized \in BOOLEAN :
           canvas \in Lettered(Painted(TextCanvas(2, 2), p, q, colorized))
    /\ pre = canvas
    /\ last = NoCall
    /\ nops = 0

\* to_string() changes nothing; its result is recorded in last.text.
Render ==
    /\ canvas' = canvas
    /\ pre' = canvas
    /\ last' = [NoCall EXCEPT !.op = "to_string", !.text = to_string(canvas)]
    /\ nops' = nops

NextRender == Render

SpecRender == InitRender /\ [][NextRender]_vars

(***************************************************************************)
(* Printing state machine: pixel, colour, text, clear and composition      *)
(* calls, among them draw_text of strings that hold a line terminator, and *)
(* to_string() at any moment.                                              *)
(***************************************************************************)
\* "\n" and "a\n".
TextsOfLines == {<<10>>, <<97, 10>>}

DrawTextOfLines ==
    \E text \in TextsOfLines, x \in OutputXs(canvas), y \in OutputYs(canvas) :
        Step(draw_text(canvas, text, x, y), TextCall("draw_text", text, x, y))

NextPrint ==
    \/ SetPixel \/ SetColor \/ Clear \/ DrawText \/ DrawTextOfLines
    \/ DrawCanvas \/ Render

SpecPrint == Init /\ [][NextPrint]_vars

(***************************************************************************)
(* The Braille encoder is a static method: the state holds a pixel block   *)
(* (four rows of two pixels), then its character.                          *)
(***************************************************************************)
PixelBlocks == [1..4 -> [1..2 -> BOOLEAN]]

InitBraille ==
    /\ canvas = TextCanvas(1, 1)
    /\ pre = canvas
    /\ \E pixel_block \in PixelBlocks :
           last = [NoCall EXCEPT !.op = "pixel_block", !.args = pixel_block]
    /\ nops = 0

PixelBlockToBrailleChar ==
    /\ last.op = "pixel_block"
    /\ last' = [last EXCEPT
           !.op = "_pixel_block_to_braille_char",
           !.text = pixel_block_to_braille_char(last.args)]
    /\ nops' = nops + 1
    /\ UNCHANGED <<canvas, pre>>

NextBraille == PixelBlockToBrailleChar

SpecBraille == InitBraille /\ [][NextBraille]_vars

(***************************************************************************)
(* Claims about set_pixel and get_pixel.                                   *)
(***************************************************************************)
ScreenCoords(c) == (0..(c.screen.width - 1)) \X (0..(c.screen.height - 1))
OutputCoords(c) == (0..(c.output.width - 1)) \X (0..(c.output.height - 1))

InScreen(c, x, y) ==
    x >= 0 /\ y >= 0 /\ x <= c.screen.width - 1 /\ y <= c.screen.height - 1

\* C1: with inverted mode off, after an in-bounds set_pixel(x, y, state)
\* get_pixel(x, y) returns state, and every other pixel is as before the call.
C1_SetThenGet ==
    (last.op = "set_pixel" /\ ~pre.is_inverted /\ InScreen(pre, last.x, last.y)) =>
        /\ get_pixel(canvas, last.x, last.y) = Some(last.state)
        /\ \A p \in ScreenCoords(pre) :
              p # <<last.x, last.y>> =>
                  get_pixel(canvas, p[1], p[2]) = get_pixel(pre, p[1], p[2])

\* A pixel that was on is turned off by set_pixel(x, y, false) while another
\* pixel stays on.
C1_Witness ==
    /\ last.op = "set_pixel" /\ ~pre.is_inverted /\ InScreen(pre, last.x, last.y)
    /\ last.state = FALSE
    /\ get_pixel(pre, last.x, last.y) = Some(TRUE)
    /\ get_pixel(canvas, last.x, last.y) = Some(FALSE)
    /\ \E p \in ScreenCoords(canvas) : get_pixel(canvas, p[1], p[2]) = Some(TRUE)

\* C2: outside the screen bounds get_pixel returns None, and set_pixel, for
\* either state and either inverted mode, leaves the pixel buffer, the color
\* buffer and the text buffer as they were.
C2_OutOfBounds ==
    /\ \A x \in ScreenXs(canvas), y \in ScreenYs(canvas) :
          ~InScreen(canvas, x, y) => get_pixel(canvas, x, y) = None
    /\ (last.op = "set_pixel" /\ ~InScreen(pre, last.x, last.y)) =>
          /\ canvas.buffer = pre.buffer
          /\ canvas.color_buffer = pre.color_buffer
          /\ canvas.text_buffer = pre.text_buffer

\* An out-of-bounds set_pixel(x, y, true) on a colorized canvas that holds
\* text.
C2_Witness ==
    /\ last.op = "set_pixel" /\ ~InScreen(pre, last.x, last.y)
    /\ last.x < 0 /\ last.state = TRUE
    /\ Len(pre.color_buffer) > 0
    /\ Len(pre.text_buffer) > 0
    /\ \E p \in OutputCoords(pre) : pre.text_buffer[p[2] + 1][p[1] + 1] # <<>>
    /\ canvas = pre

\* C3: on a colorized canvas an in-bounds set_pixel whose effective state
\* (after inversion) is true stores the current draw color in color cell
\* (x div 2, y div 4), one whose effective state is false stores the no-color
\* value there, whatever the other pixels of the block are; no other color
\* cell and not the draw color change.
C3_ColorFollowsLastWrite ==
    (last.op = "set_pixel" /\ InScreen(pre, last.x, last.y)
        /\ Len(pre.color_buffer) > 0) =>
        LET effective == (last.state # pre.is_inverted)
            cell_x == last.x \div 2
            cell_y == last.y \div 4
        IN  /\ canvas.color_buffer[cell_y + 1][cell_x + 1] =
                  (IF effective THEN pre.color ELSE Color)
            /\ \A p \in OutputCoords(pre) :
                  p # <<cell_x, cell_y>> =>
                      canvas.color_buffer[p[2] + 1][p[1] + 1] =
                          pre.color_buffer[p[2] + 1][p[1] + 1]
            /\ canvas.color = pre.color

\* A colored cell is reset by turning one of its pixels off while another
\* pixel of the same block is still on.
C3_Witness ==
    /\ last.op = "set_pixel" /\ InScreen(pre, last.x, last.y)
    /\ Len(pre.color_buffer) > 0
    /\ last.state = pre.is_inverted
    /\ pre.color_buffer[(last.y \div 4) + 1][(last.x \div 2) + 1] # Color
    /\ canvas.color_buffer[(last.y \div 4) + 1][(last.x \div 2) + 1] = Color
    /\ \E by \in 0..3, bx \in 0..1 :
          canvas.buffer[(last.y \div 4) * 4 + by + 1][(last.x \div 2) * 2 + bx + 1] = ON

(***************************************************************************)
(* Claims about to_string.                                                 *)
(***************************************************************************)
Bit(b, v) == IF b = TRUE THEN v ELSE 0

\* The code point for the 2x4 block under output cell (x, y).
GlyphOf(c, x, y) ==
    10240
    + Bit(c.buffer[4 * y + 1][2 * x + 1], 1) + Bit(c.buffer[4 * y + 1][2 * x + 2], 8)
    + Bit(c.buffer[4 * y + 2][2 * x + 1], 2) + Bit(c.buffer[4 * y + 2][2 * x + 2], 16)
    + Bit(c.buffer[4 * y + 3][2 * x + 1], 4) + Bit(c.buffer[4 * y + 3][2 * x + 2], 32)
    + Bit(c.buffer[4 * y + 4][2 * x + 1], 64) + Bit(c.buffer[4 * y + 4][2 * x + 2], 128)

\* What output cell (x, y) shows.
RenderCell(c, x, y) ==
    IF Len(c.text_buffer) > 0 /\ c.text_buffer[y + 1][x + 1] # <<>>
    THEN c.text_buffer[y + 1][x + 1]
    ELSE IF Len(c.color_buffer) > 0
         THEN format(c.color_buffer[y + 1][x + 1], <<GlyphOf(c, x, y)>>)
         ELSE <<GlyphOf(c, x, y)>>

\* The cells x, x + 1, ... of row y, then a line terminator.
RECURSIVE RenderRow(_, _, _)
RenderRow(c, x, y) ==
    IF x >= c.output.width THEN <<10>>
    ELSE RenderCell(c, x, y) \o RenderRow(c, x + 1, y)

RECURSIVE RenderRows(_, _)
RenderRows(c, y) ==
    IF y >= c.output.height THEN <<>>
    ELSE RenderRow(c, 0, y) \o RenderRows(c, y + 1)

\* C4: to_string() is, row by row and cell by cell, the text entry of the
\* cell when the text buffer is allocated and the entry is not empty, and
\* otherwise the Braille glyph of the block under the cell, wrapped in the
\* cell's color when the canvas is colorized.
C4_ToStringLayers ==
    last.op = "to_string" => last.text = RenderRows(canvas, 0)

\* A 2x2 canvas with text in one cell, and a lit pixel under a cell whose
\* text was erased: the output shows the glyph of that cell, not a letter.
C4_Witness ==
    /\ last.op = "to_string"
    /\ Len(canvas.text_buffer) > 0
    /\ canvas.text_buffer[2][2] # <<>>
    /\ canvas.text_buffer[2][1] = <<>>
    /\ canvas.buffer[5][1] = ON
    /\ Len(canvas.color_buffer) > 0
    /\ canvas.color_buffer[2][1] # Color
    /\ last.text = RenderRows(canvas, 0)

(***************************************************************************)
(* Claims about draw_canvas and merge_canvas.  The call is last: the       *)
(* source is last.other, the offset (last.x, last.y).                      *)
(***************************************************************************)
IsComposite == last.op \in {"draw_canvas", "merge_canvas"}

\* The source pixels whose destination lies inside self's screen.
InBoundsSources ==
    {p \in ScreenCoords(last.other) : InScreen(pre, last.x + p[1], last.y + p[2])}

\* The destination output cell of source pixel p.
CellOf(p) == <<(last.x + p[1]) \div 2, (last.y + p[2]) \div 4>>

\* The position of source pixel p in the traversal: rows first.
Rank(p) == p[2] * last.other.screen.width + p[1]

LastOf(S) == CHOOSE p \in S : \A q \in S : Rank(q) <= Rank(p)

SrcPixel(p) == last.other.buffer[p[2] + 1][p[1] + 1]
SrcColor(p) == last.other.color_buffer[(p[2] \div 4) + 1][(p[1] \div 2) + 1]
SrcText(p) == last.other.text_buffer[(p[2] \div 4) + 1][(p[1] \div 2) + 1]

PreColor(cell) ==
    IF Len(pre.color_buffer) > 0 THEN pre.color_buffer[cell[2] + 1][cell[1] + 1]
    ELSE Color

PreText(cell) ==
    IF Len(pre.text_buffer) > 0 THEN pre.text_buffer[cell[2] + 1][cell[1] + 1]
    ELSE <<>>

\* C5: after draw_canvas(src, dx, dy) each destination pixel under the
\* overlay equals the source pixel mapped onto it, on or off; each pixel
\* outside the overlay is as before; the screen keeps its size.
C5_DrawCopiesPixels ==
    last.op = "draw_canvas" =>
        /\ canvas.screen = pre.screen
        /\ \A d \in ScreenCoords(pre) :
              canvas.buffer[d[2] + 1][d[1] + 1] =
                  IF InScreen(last.other, d[1] - last.x, d[2] - last.y)
                  THEN last.other.buffer[d[2] - last.y + 1][d[1] - last.x + 1]
                  ELSE pre.buffer[d[2] + 1][d[1] + 1]

\* A draw_canvas that turned a lit pixel off, left a lit pixel outside the
\* overlay alone, and skipped a source pixel falling outside self.
C5_Witness ==
    /\ last.op = "draw_canvas"
    /\ \E d \in ScreenCoords(pre) :
          /\ InScreen(last.other, d[1] - last.x, d[2] - last.y)
          /\ pre.buffer[d[2] + 1][d[1] + 1] = ON
          /\ canvas.buffer[d[2] + 1][d[1] + 1] = OFF
    /\ \E d \in ScreenCoords(pre) :
          /\ ~InScreen(last.other, d[1] - last.x, d[2] - last.y)
          /\ canvas.buffer[d[2] + 1][d[1] + 1] = ON
    /\ InBoundsSources # ScreenCoords(last.other)
    /\ InBoundsSources # {}

\* C6: after merge_canvas(src, dx, dy) each destination pixel under the
\* overlay is its previous value OR the source pixel mapped onto it; each
\* pixel outside the overlay is as before.
C6_MergeOrsPixels ==
    last.op = "merge_canvas" =>
        /\ canvas.screen = pre.screen
        /\ \A d \in ScreenCoords(pre) :
              canvas.buffer[d[2] + 1][d[1] + 1] =
                  IF InScreen(last.other, d[1] - last.x, d[2] - last.y)
                  THEN (pre.buffer[d[2] + 1][d[1] + 1]
                        \/ last.other.buffer[d[2] - last.y + 1][d[1] - last.x + 1])
                  ELSE pre.buffer[d[2] + 1][d[1] + 1]

\* A merge_canvas that lit a dark pixel and kept a lit pixel under a dark
\* source pixel.
C6_Witness ==
    /\ last.op = "merge_canvas"
    /\ \E d \in ScreenCoords(pre) :
          /\ InScreen(last.other, d[1] - last.x, d[2] - last.y)
          /\ pre.buffer[d[2] + 1][d[1] + 1] = OFF
          /\ canvas.buffer[d[2] + 1][d[1] + 1] = ON
    /\ \E d \in ScreenCoords(pre) :
          /\ InScreen(last.other, d[1] - last.x, d[2] - last.y)
          /\ last.other.buffer[d[2] - last.y + 1][d[1] - last.x + 1] = OFF
          /\ canvas.buffer[d[2] + 1][d[1] + 1] = ON

\* The source pixels that copy their color to destination cell `cell`:
\* in-bounds, and in merge_canvas lit.
ColorWriters(cell) ==
    {p \in InBoundsSources :
        CellOf(p) = cell /\ (last.op = "draw_canvas" \/ SrcPixel(p) = ON)}

\* C7: with a colorized source, draw_canvas copies the source color entry
\* (x div 2, y div 4) to cell ((dx+x) div 2, (dy+y) div 4) for every in-bounds
\* source pixel (x, y), and merge_canvas only for the in-bounds source pixels
\* that are on: each destination color cell holds the color of the last such
\* pixel mapped to it, or else its previous value (Color() in a color buffer
\* the call allocated).  A source without colors changes no color.
C7_ColorCopiedWithPixel ==
    IsComposite =>
        IF Len(last.other.color_buffer) > 0
        THEN /\ Len(canvas.color_buffer) = canvas.output.height
             /\ \A cell \in OutputCoords(canvas) :
                   canvas.color_buffer[cell[2] + 1][cell[1] + 1] =
                       IF ColorWriters(cell) = {} THEN PreColor(cell)
                       ELSE SrcColor(LastOf(ColorWriters(cell)))
        ELSE canvas.color_buffer = pre.color_buffer

\* A merge_canvas of a colorized source: one cell took the color of a lit
\* source pixel, another kept its own color under dark source pixels of a
\* different color.
C7_Witness ==
    /\ last.op = "merge_canvas"
    /\ Len(last.other.color_buffer) > 0
    /\ Len(pre.color_buffer) > 0
    /\ \E cell \in OutputCoords(canvas) :
          /\ ColorWriters(cell) # {}
          /\ canvas.color_buffer[cell[2] + 1][cell[1] + 1] # PreColor(cell)
    /\ \E cell \in OutputCoords(canvas) :
          /\ ColorWriters(cell) = {}
          /\ \E p \in InBoundsSources :
                CellOf(p) = cell /\ SrcColor(p) # PreColor(cell)
          /\ canvas.color_buffer[cell[2] + 1][cell[1] + 1] = PreColor(cell)

\* C7 as stated: the color is copied for every in-bounds source pixel, on or
\* off, in merge_canvas as in draw_canvas; so a destination color cell some
\* in-bounds source pixel maps to holds the color of one of them.
C7_ColorCopiedRegardless ==
    (IsComposite /\ Len(last.other.color_buffer) > 0) =>
        \A cell \in OutputCoords(canvas) :
            (\E p \in InBoundsSources : CellOf(p) = cell) =>
                \E p \in InBoundsSources :
                    /\ CellOf(p) = cell
                    /\ canvas.color_buffer[cell[2] + 1][cell[1] + 1] = SrcColor(p)

\* The source pixels that copy their text entry to destination cell `cell`:
\* in-bounds, and in merge_canvas with a non-empty entry.
TextWriters(cell) ==
    {p \in InBoundsSources :
        CellOf(p) = cell /\ (last.op = "draw_canvas" \/ SrcText(p) # <<>>)}

\* self as the loop body leaves it when run for source pixel p alone.
WrittenBy(p) ==
    composite_pixel(composite_init(pre, last.other), last.other, p[1], p[2],
                    last.x, last.y, last.op = "merge_canvas")

\* All source pixels writing one destination cell write the same value.
SameValuePerCell ==
    /\ Len(last.other.color_buffer) > 0 =>
          \A cell \in OutputCoords(pre) :
              LET writers == ColorWriters(cell)
                  first == WrittenBy(CHOOSE p \in writers : TRUE)
              IN  \A p \in writers :
                      WrittenBy(p).color_buffer[cell[2] + 1][cell[1] + 1] =
                          first.color_buffer[cell[2] + 1][cell[1] + 1]
    /\ Len(last.other.text_buffer) > 0 =>
          \A cell \in OutputCoords(pre) :
              LET writers == TextWriters(cell)
                  first == WrittenBy(CHOOSE p \in writers : TRUE)
              IN  \A p \in writers :
                      WrittenBy(p).text_buffer[cell[2] + 1][cell[1] + 1] =
                          first.text_buffer[cell[2] + 1][cell[1] + 1]

Reversed(seq) == [i \in 1..Len(seq) |-> seq[Len(seq) + 1 - i]]

\* Visiting the source pixels in the opposite order gives the same canvas.
SameInReverse ==
    canvas = composite_loop(composite_init(pre, last.other), last.other,
                            Reversed(iter_buffer(last.other)), 1,
                            last.x, last.y, last.op = "merge_canvas")

\* C8: in a draw_canvas or merge_canvas call whose offset has dx a multiple
\* of 2 and dy a multiple of 4, all source pixels that write the same
\* destination color cell, or the same destination text cell, write the same
\* value, and the result does not depend on the order of the visit.
C8_AlignedWritesAgree ==
    (IsComposite /\ last.x % 2 = 0 /\ last.y % 4 = 0) =>
        SameValuePerCell /\ SameInReverse

\* A draw or merge at an aligned offset other than (0, 0), of a source with
\* colors and text, where several source pixels wrote one color cell and
\* several wrote one text cell.
C8_Witness ==
    /\ IsComposite
    /\ last.x % 2 = 0 /\ last.y % 4 = 0
    /\ last.x # 0 \/ last.y # 0
    /\ Len(last.other.color_buffer) > 0
    /\ Len(last.other.text_buffer) > 0
    /\ \E cell \in OutputCoords(pre) :
          /\ Cardinality(ColorWriters(cell)) > 1
          /\ Cardinality(TextWriters(cell)) > 1
          /\ canvas.color_buffer[cell[2] + 1][cell[1] + 1] # PreColor(cell)
          /\ canvas.text_buffer[cell[2] + 1][cell[1] + 1] # PreText(cell)
    /\ SameValuePerCell /\ SameInReverse

\* C8 as stated: the same for every offset, aligned or not.
C8_AllWritesAgree ==
    IsComposite => SameValuePerCell /\ SameInReverse

\* C9: with a textual source each destination text cell holds the source
\* entry of the last in-bounds source pixel mapped to it -- in draw_canvas
\* any such pixel, its entry empty or not, in merge_canvas only those whose
\* entry is not empty -- or else its previous content; with a source without
\* text the text buffer is as before.
C9_TextCopy ==
    IsComposite =>
        IF Len(last.other.text_buffer) > 0
        THEN /\ Len(canvas.text_buffer) = canvas.output.height
             /\ \A cell \in OutputCoords(canvas) :
                   canvas.text_buffer[cell[2] + 1][cell[1] + 1] =
                       IF TextWriters(cell) = {} THEN PreText(cell)
                       ELSE SrcText(LastOf(TextWriters(cell)))
        ELSE canvas.text_buffer = pre.text_buffer

\* A draw_canvas whose empty source entry erased a destination text.
C9_Witness ==
    /\ last.op = "draw_canvas"
    /\ Len(last.other.text_buffer) > 0
    /\ \E cell \in OutputCoords(canvas) :
          /\ PreText(cell) # <<>>
          /\ TextWriters(cell) # {}
          /\ canvas.text_buffer[cell[2] + 1][cell[1] + 1] = <<>>
    /\ \E cell \in OutputCoords(canvas) :
          canvas.text_buffer[cell[2] + 1][cell[1] + 1] # <<>>

\* A merge_canvas that kept a destination text under an empty source entry
\* and replaced another by a non-empty source entry.
C9_WitnessMerge ==
    /\ last.op = "merge_canvas"
    /\ Len(last.other.text_buffer) > 0
    /\ \E cell \in OutputCoords(canvas) :
          /\ PreText(cell) # <<>>
          /\ \E p \in InBoundsSources : CellOf(p) = cell /\ SrcText(p) = <<>>
          /\ canvas.text_buffer[cell[2] + 1][cell[1] + 1] = PreText(cell)
    /\ \E cell \in OutputCoords(canvas) :
          /\ TextWriters(cell) # {}
          /\ canvas.text_buffer[cell[2] + 1][cell[1] + 1] # PreText(cell)

(***************************************************************************)
(* Claims about draw_text, merge_text and their vertical forms.  The call  *)
(* is last: the text is last.text, the start cell (last.x, last.y).        *)
(***************************************************************************)
IsTextCall ==
    last.op \in {"draw_text", "draw_text_vertical", "merge_text", "merge_text_vertical"}

IsVertical == last.op \in {"draw_text_vertical", "merge_text_vertical"}

IsMerge == last.op \in {"merge_text", "merge_text_vertical"}

\* The output cell character i (from 0) of the text is aimed at.
Target(i) ==
    IF IsVertical THEN <<last.x, last.y + i>> ELSE <<last.x + i, last.y>>

\* The indices of the characters that change cell `cell`.
Storing(cell) ==
    {i \in 0..(Len(last.text) - 1) :
        Target(i) = cell /\ ~(IsMerge /\ last.text[i + 1] = 32)}

\* C10: after draw_text / draw_text_vertical / merge_text / merge_text_vertical
\* the text buffer is allocated; the cell character i is aimed at holds the
\* empty string if the character is a space (draw) or the character wrapped
\* in the draw color otherwise; under merge a space leaves its cell as it
\* was; characters aimed outside the output change nothing and the later
\* ones still land at their own cells; all other text cells, the pixels and
\* the colors are as before.
C10_DrawText ==
    IsTextCall =>
        /\ Len(canvas.text_buffer) = canvas.output.height
        /\ \A cell \in OutputCoords(canvas) :
              canvas.text_buffer[cell[2] + 1][cell[1] + 1] =
                  IF Storing(cell) = {} THEN PreText(cell)
                  ELSE LET i == CHOOSE i \in Storing(cell) : TRUE
                       IN  IF last.text[i + 1] = 32 THEN <<>>
                           ELSE format(pre.color, <<last.text[i + 1]>>)
        /\ canvas.buffer = pre.buffer
        /\ canvas.color_buffer = pre.color_buffer
        /\ canvas.color = pre.color
        /\ canvas.is_inverted = pre.is_inverted

\* A merge_text in a draw color whose leading space kept the text of its
\* cell and whose next character was stored, colored, in the next cell.
C10_Witness ==
    /\ last.op = "merge_text"
    /\ last.text = <<32, 98>>
    /\ pre.color # Color
    /\ Len(pre.text_buffer) > 0
    /\ check_output_bounds(pre, last.x, last.y)
    /\ check_output_bounds(pre, last.x + 1, last.y)
    /\ pre.text_buffer[last.y + 1][last.x + 1] # <<>>
    /\ canvas.text_buffer[last.y + 1][last.x + 1] = pre.text_buffer[last.y + 1][last.x + 1]
    /\ canvas.text_buffer[last.y + 1][last.x + 2] = format(pre.color, <<98>>)

\* A draw_text whose first character fell outside the output and whose
\* second was stored in the first cell of the row.
C10_WitnessSkipped ==
    /\ last.op = "draw_text"
    /\ last.text = <<32, 98>>
    /\ last.x = -1
    /\ check_output_bounds(pre, 0, last.y)
    /\ canvas.text_buffer[last.y + 1][1] = format(pre.color, <<98>>)

(***************************************************************************)
(* Claims about invert, clear, set_color and fill.                         *)
(***************************************************************************)
\* invert(); set_pixel(x, y, true); invert(); set_pixel(x, y, true) on c.
InvertSetTwice(c, x, y) ==
    set_pixel(invert(set_pixel(invert(c), x, y, TRUE)), x, y, TRUE)

\* C11: invert() toggles is_inverted and changes nothing else; in inverted
\* mode an in-bounds set_pixel(x, y, s) stores the negation of s; and on a
\* canvas whose inverted mode is off, invert(); set_pixel(x, y, true);
\* invert(); set_pixel(x, y, true) leaves pixel (x, y) true, is_inverted as
\* it was, and the same pixels as a single set_pixel(x, y, true).
C11_InvertNegatesWrites ==
    /\ last.op = "invert" => canvas = [pre EXCEPT !.is_inverted = ~pre.is_inverted]
    /\ (last.op = "set_pixel" /\ pre.is_inverted /\ InScreen(pre, last.x, last.y)) =>
          canvas.buffer[last.y + 1][last.x + 1] = ~last.state
    /\ ~canvas.is_inverted =>
          \A p \in ScreenCoords(canvas) :
              /\ InvertSetTwice(canvas, p[1], p[2]).buffer[p[2] + 1][p[1] + 1] = TRUE
              /\ InvertSetTwice(canvas, p[1], p[2]).is_inverted = canvas.is_inverted
              /\ InvertSetTwice(canvas, p[1], p[2]).buffer
                     = set_pixel(canvas, p[1], p[2], TRUE).buffer

\* After invert(), set_pixel(x, y, true) turned a lit pixel off.
C11_Witness ==
    /\ last.op = "set_pixel" /\ pre.is_inverted /\ InScreen(pre, last.x, last.y)
    /\ last.state = TRUE
    /\ pre.buffer[last.y + 1][last.x + 1] = ON
    /\ canvas.buffer[last.y + 1][last.x + 1] = OFF
    /\ canvas.is_inverted

\* C11 as stated: the sequence leaves pixel (x, y) true whatever is_inverted
\* was before it.
C11_SequenceInAnyMode ==
    \A p \in ScreenCoords(canvas) :
        /\ InvertSetTwice(canvas, p[1], p[2]).buffer[p[2] + 1][p[1] + 1] = TRUE
        /\ InvertSetTwice(canvas, p[1], p[2]).is_inverted = canvas.is_inverted

\* C13: after clear(), whatever is_inverted is, every pixel is false, every
\* entry of an allocated color buffer is Color() and every entry of an
\* allocated text buffer is the empty string.
C13_ClearResets ==
    last.op = "clear" =>
        /\ \A p \in ScreenCoords(canvas) : get_pixel(canvas, p[1], p[2]) = Some(FALSE)
        /\ \A y \in 1..Len(canvas.color_buffer) :
              \A x \in 1..Len(canvas.color_buffer[y]) :
                  canvas.color_buffer[y][x] = Color
        /\ \A y \in 1..Len(canvas.text_buffer) :
              \A x \in 1..Len(canvas.text_buffer[y]) :
                  canvas.text_buffer[y][x] = <<>>

\* clear() in inverted mode on a canvas with a lit pixel, a colored cell and
\* text.
C13_Witness ==
    /\ last.op = "clear"
    /\ pre.is_inverted
    /\ \E p \in ScreenCoords(pre) : pre.buffer[p[2] + 1][p[1] + 1] = ON
    /\ Len(pre.color_buffer) > 0 /\ Len(pre.text_buffer) > 0
    /\ \E cell \in OutputCoords(pre) :
          /\ pre.color_buffer[cell[2] + 1][cell[1] + 1] # Color
          /\ pre.text_buffer[cell[2] + 1][cell[1] + 1] # <<>>
    /\ \A p \in ScreenCoords(canvas) : canvas.buffer[p[2] + 1][p[1] + 1] = OFF

\* The rows and columns of a buffer.
Shape(buf) == [y \in 1..Len(buf) |-> Len(buf[y])]

\* C14: clear() keeps the color buffer and the text buffer empty if they
\* were empty and at their dimensions if they were allocated, and changes
\* neither is_inverted nor the draw color.
C14_ClearKeepsAllocation ==
    last.op = "clear" =>
        /\ Shape(canvas.color_buffer) = Shape(pre.color_buffer)
        /\ Shape(canvas.text_buffer) = Shape(pre.text_buffer)
        /\ is_colorized(canvas) = is_colorized(pre)
        /\ is_textual(canvas) = is_textual(pre)
        /\ canvas.is_inverted = pre.is_inverted
        /\ canvas.color = pre.color

\* clear() on a canvas with a draw color and a color buffer but no text
\* buffer.
C14_Witness ==
    /\ last.op = "clear"
    /\ Len(pre.color_buffer) > 0 /\ Len(canvas.color_buffer) = pre.output.height
    /\ Len(pre.text_buffer) = 0 /\ Len(canvas.text_buffer) = 0
    /\ pre.color # Color /\ canvas.color = pre.color

\* C15: set_color(color) allocates the color buffer, all Color(), on a canvas
\* that has none, and otherwise leaves the color buffer as it is; it makes
\* color the draw color and changes no pixel, no text entry and not
\* is_inverted.
C15_SetColorFrame ==
    last.op = "set_color" =>
        /\ canvas.color_buffer =
              IF Len(pre.color_buffer) = 0
              THEN [y \in 1..pre.output.height |->
                       [x \in 1..pre.output.width |-> Color]]
              ELSE pre.color_buffer
        /\ canvas.color = last.color
        /\ canvas.buffer = pre.buffer
        /\ canvas.text_buffer = pre.text_buffer
        /\ canvas.is_inverted = pre.is_inverted

\* set_color(green) on a canvas with a red cell and red text: both stay red.
C15_Witness ==
    /\ last.op = "set_color" /\ last.color = green
    /\ Len(pre.color_buffer) > 0 /\ Len(pre.text_buffer) > 0
    /\ \E cell \in OutputCoords(pre) :
          /\ pre.color_buffer[cell[2] + 1][cell[1] + 1] = red
          /\ canvas.color_buffer[cell[2] + 1][cell[1] + 1] = red
          /\ canvas.text_buffer[cell[2] + 1][cell[1] + 1] = format(red, <<97>>)
    /\ canvas.color = green

\* C16: fill() sets every pixel to true whatever is_inverted is and leaves
\* the color buffer, the text buffer, is_inverted and the draw color as they
\* were.
C16_FillFrame ==
    last.op = "fill" =>
        /\ \A p \in ScreenCoords(canvas) : get_pixel(canvas, p[1], p[2]) = Some(TRUE)
        /\ Shape(canvas.buffer) = Shape(pre.buffer)
        /\ canvas.color_buffer = pre.color_buffer
        /\ canvas.text_buffer = pre.text_buffer
        /\ canvas.is_inverted = pre.is_inverted
        /\ canvas.color = pre.color

\* fill() in inverted mode on a colorized canvas with a draw color: a cell
\* without color is lit and stays without color.
C16_Witness ==
    /\ last.op = "fill"
    /\ pre.is_inverted
    /\ pre.color # Color
    /\ Len(pre.color_buffer) > 0
    /\ \E cell \in OutputCoords(pre) :
          /\ canvas.color_buffer[cell[2] + 1][cell[1] + 1] = Color
          /\ pre.buffer[4 * cell[2] + 1][2 * cell[1] + 1] = OFF
          /\ canvas.buffer[4 * cell[2] + 1][2 * cell[1] + 1] = ON

(***************************************************************************)
(* Claims about the drawing primitives.                                    *)
(***************************************************************************)
\* C17: with inverted mode off, after stroke_line(x1, y1, x2, y2) pixel
\* (x1, y1) and pixel (x2, y2) are true whenever they are inside the screen,
\* and the screen keeps its size: what falls outside is dropped.
C17_LineEndsLit ==
    (last.op = "stroke_line" /\ ~pre.is_inverted) =>
        /\ InScreen(pre, last.args[1], last.args[2]) =>
              get_pixel(canvas, last.args[1], last.args[2]) = Some(TRUE)
        /\ InScreen(pre, last.args[3], last.args[4]) =>
              get_pixel(canvas, last.args[3], last.args[4]) = Some(TRUE)
        /\ canvas.screen = pre.screen
        /\ Shape(canvas.buffer) = Shape(pre.buffer)

\* A steep line of general slope drawn from outside the screen to a pixel
\* inside that was dark.
C17_Witness ==
    /\ last.op = "stroke_line" /\ ~pre.is_inverted
    /\ ~InScreen(pre, last.args[1], last.args[2])
    /\ InScreen(pre, last.args[3], last.args[4])
    /\ abs(last.args[4] - last.args[2]) > abs(last.args[3] - last.args[1])
    /\ abs(last.args[3] - last.args[1]) > 1
    /\ pre.buffer[last.args[4] + 1][last.args[3] + 1] = OFF
    /\ canvas.buffer[last.args[4] + 1][last.args[3] + 1] = ON

\* The coordinates a sequence of set_pixel calls names.
PixelSet(pixels) == {pixels[i] : i \in 1..Len(pixels)}

\* The rectangle [x, x + width) x [y, y + height).
Rect(x, y, width, height) ==
    {<<px, py>> : px \in x..(x + width - 1), py \in y..(y + height - 1)}

\* C18: fill_rect(x, y, width, height) calls set_pixel(., ., true) on exactly
\* the pixels of [x, x + width) x [y, y + height), once each, for every
\* width >= 0 and height >= 0; with width 0 or height 0 no pixel is touched.
C18_FillRectExact ==
    last.op = "fill_rect" =>
        LET pixels == fill_rect_pixels(last.args[1], last.args[2],
                                       last.args[3], last.args[4])
        IN  /\ PixelSet(pixels) = Rect(last.args[1], last.args[2],
                                       last.args[3], last.args[4])
            /\ Len(pixels) = last.args[3] * last.args[4]
            /\ (last.args[3] = 0 \/ last.args[4] = 0) => canvas = pre

\* fill_rect(1, 0, 0, 2) on a new canvas: a rectangle of width 0 that turns
\* pixels on.
C18_Witness ==
    /\ last.op = "fill_rect"
    /\ last.args = <<1, 0, 0, 2>>
    /\ pre = TextCanvas(1, 1)
    /\ canvas.buffer[1][1] = ON /\ canvas.buffer[1][2] = ON
    /\ canvas.buffer[2][1] = ON /\ canvas.buffer[2][2] = ON

\* Twice the signed area of the triangle (a, b, p).
Cross(ax, ay, bx, by, px, py) == (bx - ax) * (py - ay) - (by - ay) * (px - ax)

\* Membership of the closed triangle with vertices p0, p1, p2 (the convex
\* hull of the three points, degenerate cases included): p is on one side of
\* all three edges, or on them, and inside the bounding box.
InClosedTriangle(px, py, p0x, p0y, p1x, p1y, p2x, p2y) ==
    LET a == Cross(p0x, p0y, p1x, p1y, px, py)
        b == Cross(p1x, p1y, p2x, p2y, px, py)
        e == Cross(p2x, p2y, p0x, p0y, px, py)
    IN  /\ (a >= 0 /\ b >= 0 /\ e >= 0) \/ (a <= 0 /\ b <= 0 /\ e <= 0)
        /\ min(p0x, min(p1x, p2x)) <= px /\ px <= max(p0x, max(p1x, p2x))
        /\ min(p0y, min(p1y, p2y)) <= py /\ py <= max(p0y, max(p1y, p2y))

\* C19: the point-in-triangle test is true for exactly the points of the
\* closed triangle (interior, edges and the three vertices), and its answer
\* is the same for every ordering of the three vertices.
C19_PointInTriangleExact ==
    last.op = "_is_point_in_triangle" =>
        LET a == last.args
        IN  /\ last.state = InClosedTriangle(a[1], a[2], a[3], a[4],
                                             a[5], a[6], a[7], a[8])
            /\ last.state = is_point_in_triangle(a[1], a[2], a[3], a[4],
                                                 a[7], a[8], a[5], a[6])
            /\ last.state = is_point_in_triangle(a[1], a[2], a[5], a[6],
                                                 a[7], a[8], a[3], a[4])

\* The first vertex of the triangle (0, 0), (1, 0), (0, 1) is reported
\* outside, while it is inside when the same triangle is given in the other
\* winding order.
C19_Witness ==
    /\ last.op = "_is_point_in_triangle"
    /\ last.args = <<0, 0, 0, 0, 1, 0, 0, 1>>
    /\ last.state = FALSE
    /\ is_point_in_triangle(0, 0, 0, 0, 0, 1, 1, 0)

IsNgon == last.op \in {"stroke_ngon", "fill_ngon"}

\* C20: stroke_ngon and fill_ngon with sides < 3 raise ValueError and leave
\* the pixel, colour and text buffers, is_inverted and the draw colour as
\* they were, whatever the canvas looked like before; with 3 sides or more
\* no error is raised.
C20_NgonTooFewSides ==
    IsNgon =>
        /\ last.args[4] < 3 =>
              /\ last.error = <<"ValueError">>
              /\ canvas.buffer = pre.buffer
              /\ canvas.color_buffer = pre.color_buffer
              /\ canvas.text_buffer = pre.text_buffer
              /\ canvas.is_inverted = pre.is_inverted
              /\ canvas.color = pre.color
        /\ last.args[4] >= 3 => last.error = <<>>

\* fill_ngon with two sides, centred on a dark pixel of a canvas that holds
\* pixels, colours and text, and with a first vertex inside the screen.
C20_Witness ==
    /\ last.op = "fill_ngon" /\ last.args[4] = 2
    /\ last.error = <<"ValueError">>
    /\ pre = Drawn(TextCanvas(1, 1))
    /\ InScreen(pre, last.args[1] + last.args[3], last.args[2])
    /\ get_pixel(pre, last.args[1] + last.args[3], last.args[2]) = Some(FALSE)

\* The same square is drawn when sides are enough: a stroked square of
\* radius 1 around (1, 1) lights its four vertices and leaves its centre.
C20_WitnessDrawn ==
    /\ last.op = "stroke_ngon" /\ last.args = <<1, 1, 1, 4>>
    /\ pre = TextCanvas(1, 1)
    /\ last.error = <<>>
    /\ canvas.buffer[2][1] = ON /\ canvas.buffer[1][2] = ON
    /\ canvas.buffer[3][2] = ON /\ canvas.buffer[2][2] = OFF

(***************************************************************************)
(* Claims about the buffers' dimensions.                                   *)
(***************************************************************************)
\* A buffer of `height` rows of `width` entries.
HasShape(buf, width, height) ==
    /\ Len(buf) = height
    /\ \A y \in 1..Len(buf) : Len(buf[y]) = width

\* C12: after any sequence of public operations the pixel buffer has
\* screen.height rows of screen.width booleans, with the screen 2 x 4 times
\* the output; the colour buffer and the text buffer are each empty or have
\* output.height rows of output.width entries; a buffer that was allocated
\* before a call is not empty after it, and no call changes the dimensions.
C12_BufferShapes ==
    /\ canvas.screen = Surface(2 * canvas.output.width,
                               4 * canvas.output.height)
    /\ HasShape(canvas.buffer, canvas.screen.width, canvas.screen.height)
    /\ \A y \in 1..Len(canvas.buffer) : \A x \in 1..Len(canvas.buffer[y]) :
           canvas.buffer[y][x] \in BOOLEAN
    /\ \/ canvas.color_buffer = <<>>
       \/ HasShape(canvas.color_buffer,
                   canvas.output.width, canvas.output.height)
    /\ \/ canvas.text_buffer = <<>>
       \/ HasShape(canvas.text_buffer,
                   canvas.output.width, canvas.output.height)
    /\ is_colorized(pre) => is_colorized(canvas)
    /\ is_textual(pre) => is_textual(canvas)
    /\ canvas.output = pre.output

\* A composition allocates both buffers of a canvas that had neither.
C12_Witness ==
    /\ last.op = "merge_canvas"
    /\ ~is_colorized(pre) /\ ~is_textual(pre)
    /\ is_colorized(canvas) /\ is_textual(canvas)

\* clear(), as the second call, on a canvas with both buffers allocated: they
\* stay allocated.
C12_WitnessKept ==
    /\ last.op = "clear" /\ nops = 2
    /\ is_colorized(pre) /\ is_textual(pre)
    /\ is_colorized(canvas) /\ is_textual(canvas)

(***************************************************************************)
(* Claims about the Braille encoder and to_string.                         *)
(***************************************************************************)
\* 0x2800 plus the bit values of the pixels of the block that are on.
BrailleCodePoint(pixel_block) ==
    10240
    + Bit(pixel_block[1][1], 1) + Bit(pixel_block[1][2], 8)
    + Bit(pixel_block[2][1], 2) + Bit(pixel_block[2][2], 16)
    + Bit(pixel_block[3][1], 4) + Bit(pixel_block[3][2], 32)
    + Bit(pixel_block[4][1], 64) + Bit(pixel_block[4][2], 128)

\* C21: the Braille encoder maps a 2x4 block to the code point 0x2800 plus
\* the sum of the bit values (0x1, 0x8), (0x2, 0x10), (0x4, 0x20),
\* (0x40, 0x80) of its on pixels; it is injective on the 256 blocks, its
\* image is exactly 0x2800..0x28FF, all off gives 0x2800, all on 0x28FF.
C21_BrailleEncoding ==
    last.op = "_pixel_block_to_braille_char" =>
        /\ last.text = <<BrailleCodePoint(last.args)>>
        /\ last.text[1] \in 10240..10495
        /\ \A other \in PixelBlocks :
               pixel_block_to_braille_char(other) = last.text
                   => other = last.args
        /\ last.args = Grid(2, 4, OFF) =>
              /\ last.text = <<10240>>
              /\ \A code \in 10240..10495 : \E block \in PixelBlocks :
                     pixel_block_to_braille_char(block) = <<code>>
        /\ last.args = Grid(2, 4, ON) => last.text = <<10495>>

\* The block with only the right pixel of the first row and the left pixel
\* of the last row on: 0x2800 + 0x8 + 0x40.
C21_Witness ==
    /\ last.op = "_pixel_block_to_braille_char"
    /\ last.args = <<<<OFF, ON>>, <<OFF, OFF>>, <<OFF, OFF>>, <<ON, OFF>>>>
    /\ last.text = <<10312>>

\* The string without its colour escape sequences: what follows an ESC is
\* dropped up to and including the next "m".
RECURSIVE Visible(_, _, _)
Visible(string, i, escaped) ==
    IF i > Len(string) THEN <<>>
    ELSE IF escaped
    THEN Visible(string, i + 1, string[i] # 109)
    ELSE IF string[i] = 27
    THEN Visible(string, i + 1, TRUE)
    ELSE <<string[i]>> \o Visible(string, i + 1, FALSE)

\* `string` is `height` lines of `width` characters, each line followed by a
\* line terminator.
IsLines(string, width, height) ==
    /\ Len(string) = height * (width + 1)
    /\ \A k \in 1..Len(string) : (string[k] = 10) <=> (k % (width + 1) = 0)

\* C22: in every reachable state, whatever pixel, colour, text (of any
\* string), clear and composition calls came before, to_string() holds
\* exactly output.height line terminators, and each line exactly
\* output.width cells of one character each, colour escapes aside.
C22_ToStringLines ==
    last.op = "to_string" =>
        IsLines(Visible(last.text, 1, FALSE),
                canvas.output.width, canvas.output.height)

\* to_string() of a new 2x1 canvas after draw_text("\n", 0, 0): an empty
\* line, then a line of one cell.
C22_Witness ==
    /\ last.op = "to_string"
    /\ canvas = draw_text(TextCanvas(2, 1), <<10>>, 0, 0)
    /\ last.text = <<10, 10240, 10>>

(***************************************************************************)
(* Further claims about draw_canvas and merge_canvas.                      *)
(***************************************************************************)
OntoItself == last.args = <<"self">>

\* The source canvas after the call: the code assigns to self only, so that
\* the source has changed exactly if it is self.
SourceAfter == IF OntoItself THEN canvas ELSE last.other

\* The call of `last` again, with is_inverted set to `onto` on the
\* destination and to `from` on the source.
Recomposed(onto, from) ==
    LET c == [pre EXCEPT !.is_inverted = onto]
        other == [last.other EXCEPT !.is_inverted = from]
    IN  IF OntoItself
        THEN draw_canvas_onto_itself(c, last.x, last.y,
                                     last.op = "merge_canvas")
        ELSE draw_canvas_onto_canvas(c, other, last.x, last.y,
                                     last.op = "merge_canvas")

InversionIgnored ==
    /\ \A onto \in BOOLEAN, from \in BOOLEAN :
           LET again == Recomposed(onto, from)
           IN  /\ again.buffer = canvas.buffer
               /\ again.color_buffer = canvas.color_buffer
               /\ again.text_buffer = canvas.text_buffer
               /\ again.is_inverted = onto
    /\ canvas.is_inverted = pre.is_inverted
    /\ canvas.color = pre.color

C23_WitnessOntoItself ==
    /\ last.op = "draw_canvas" /\ OntoItself
    /\ last.x = 1 /\ last.y = 0
    /\ canvas # last.other

(***************************************************************************)
(* Further claims about stroke_line.                                       *)
(***************************************************************************)
LineOf(args) == bresenham_line_pixels(args[1], args[2], args[3], args[4])

\* C25: for endpoints with x1 # x2 and y1 # y2 the loop of the Bresenham
\* line terminates, after at most |x2 - x1| + |y2 - y1| + 1 pixels, and
\* leaves through the test that both coordinates equal the target, never
\* through the breaks taken when x1 = x2 or y1 = y2 alone.
C25_LoopExitsAtTarget ==
    (/\ last.op = "stroke_line"
     /\ last.args[1] # last.args[3]
     /\ last.args[2] # last.args[4]) =>
        /\ LineOf(last.args).exit = "target"
        /\ Len(LineOf(last.args).pixels)
               <= abs(last.args[3] - last.args[1])
                    + abs(last.args[4] - last.args[2]) + 1
        /\ canvas = set_pixels(pre, LineOf(last.args).pixels, 1)

\* A line right to left and bottom to top, from inside the screen to
\* outside: 2 in x, 3 in y.
C25_Witness ==
    /\ last.op = "stroke_line"
    /\ last.args[1] - last.args[3] = 2
    /\ last.args[2] - last.args[4] = 3
    /\ InScreen(pre, last.args[1], last.args[2])
    /\ LineOf(last.args).exit = "target"

\* C27: stroke_line calls set_pixel on exactly max(|x2 - x1|, |y2 - y1|) + 1
\* coordinates, all distinct, one after the other at most 1 apart in x and
\* in y, the first and the last being the two endpoints.
C27_LineIsPath ==
    last.op = "stroke_line" =>
        LET pixels == stroke_line_pixels(last.args[1], last.args[2],
                                         last.args[3], last.args[4])
        IN  /\ Len(pixels) = max(abs(last.args[3] - last.args[1]),
                                 abs(last.args[4] - last.args[2])) + 1
            /\ \A i \in 1..Len(pixels), j \in 1..Len(pixels) :
                   pixels[i] = pixels[j] => i = j
            /\ \A i \in 1..(Len(pixels) - 1) :
                   /\ abs(pixels[i + 1][1] - pixels[i][1]) <= 1
                   /\ abs(pixels[i + 1][2] - pixels[i][2]) <= 1
            /\ {pixels[1], pixels[Len(pixels)]}
                   = {<<last.args[1], last.args[2]>>,
                      <<last.args[3], last.args[4]>>}
            /\ canvas = set_pixels(pre, pixels, 1)

\* A steep line drawn upwards: 1 in x, 5 in y, six pixels.
C27_Witness ==
    /\ last.op = "stroke_line"
    /\ abs(last.args[3] - last.args[1]) = 1
    /\ last.args[2] - last.args[4] = 5
    /\ Len(stroke_line_pixels(last.args[1], last.args[2],
                              last.args[3], last.args[4])) = 6

\* Start equal to end: one pixel.
C27_WitnessPoint ==
    /\ last.op = "stroke_line"
    /\ last.args = <<1, 2, 1, 2>>
    /\ stroke_line_pixels(1, 2, 1, 2) = <<(<<1, 2>>)>>
    /\ pre.buffer[3][2] = OFF /\ canvas.buffer[3][2] = ON

(***************************************************************************)
(* Further claims about draw_canvas and merge_canvas.                      *)
(***************************************************************************)
\* The source output cell drawn onto destination cell `cell` by a call whose
\* offset is a whole number of cells.
SourceCell(cell) == <<cell[1] - (last.x \div 2), cell[2] - (last.y \div 4)>>

Block(c, cell) ==
    [p \in (0..1) \X (0..3) |->
        c.buffer[4 * cell[2] + p[2] + 1][2 * cell[1] + p[1] + 1]]

ColorAt(c, cell) == c.color_buffer[cell[2] + 1][cell[1] + 1]
TextAt(c, cell) == c.text_buffer[cell[2] + 1][cell[1] + 1]

IsAligned == last.op = "draw_canvas" /\ last.x % 2 = 0 /\ last.y % 4 = 0

\* C28: after draw_canvas(src, dx, dy) with dx a multiple of 2 and dy a
\* multiple of 4, each destination output cell that a source cell falls on
\* has that cell's pixel block, its color entry if src is colorized and its
\* text entry if src is textual; each other destination cell has its pixel
\* block, color entry and text entry of before the call, the entry of a
\* buffer allocated by the call being the default one.
C28_AlignedDrawCopiesCells ==
    IsAligned =>
        \A cell \in OutputCoords(pre) :
            IF SourceCell(cell) \in OutputCoords(last.other)
            THEN /\ Block(canvas, cell) = Block(last.other, SourceCell(cell))
                 /\ is_colorized(last.other) =>
                        /\ is_colorized(canvas)
                        /\ ColorAt(canvas, cell)
                               = ColorAt(last.other, SourceCell(cell))
                 /\ is_textual(last.other) =>
                        /\ is_textual(canvas)
                        /\ TextAt(canvas, cell)
                               = TextAt(last.other, SourceCell(cell))
            ELSE /\ Block(canvas, cell) = Block(pre, cell)
                 /\ is_colorized(canvas) => ColorAt(canvas, cell) = PreColor(cell)
                 /\ is_textual(canvas) => TextAt(canvas, cell) = PreText(cell)

\* A source cell with color, pixels off and no text replaced, one cell to
\* the right, a destination cell that was lit, colored and lettered; the cell
\* to its left kept its own.
C28_Witness ==
    /\ IsAligned
    /\ last.x = 2 /\ last.y = 0
    /\ pre = DestinationWide
    /\ last.other = SourceWide
    /\ SourceCell(<<1, 0>>) = <<0, 0>>
    /\ TextAt(pre, <<1, 0>>) # <<>> /\ TextAt(canvas, <<1, 0>>) = <<>>
    /\ ColorAt(canvas, <<1, 0>>) = red
    /\ Block(canvas, <<1, 0>>) # Block(pre, <<1, 0>>)
    /\ Block(canvas, <<0, 0>>) = Block(pre, <<0, 0>>)
    /\ ColorAt(canvas, <<0, 0>>) = green

\* A call that allocates the color and text buffers: the cell below the
\* source holds the default entries.
C28_WitnessAllocated ==
    /\ IsAligned
    /\ ~is_colorized(pre) /\ ~is_textual(pre)
    /\ is_colorized(canvas) /\ is_textual(canvas)
    /\ \E cell \in OutputCoords(pre) :
          /\ SourceCell(cell) \notin OutputCoords(last.other)
          /\ ColorAt(canvas, cell) = Color
          /\ TextAt(canvas, cell) = <<>>
    /\ \E cell \in OutputCoords(pre) :
          /\ SourceCell(cell) \in OutputCoords(last.other)
          /\ ColorAt(canvas, cell) = red

\* C29: draw_canvas and merge_canvas from a source that is not colorized
\* leave the destination's color buffer as it was: every entry of a colorized
\* destination is kept, a destination that is not colorized stays so.
C29_ColorlessSourceKeepsColors ==
    (IsComposite /\ ~is_colorized(last.other)) =>
        /\ canvas.color_buffer = pre.color_buffer
        /\ is_colorized(canvas) <=> is_colorized(pre)

\* A colorless source turned a pixel of a green cell off and the cell is
\* still green.
C29_Witness ==
    /\ last.op = "draw_canvas"
    /\ ~is_colorized(last.other)
    /\ is_colorized(pre)
    /\ \E d \in ScreenCoords(pre) :
          /\ pre.buffer[d[2] + 1][d[1] + 1] = ON
          /\ canvas.buffer[d[2] + 1][d[1] + 1] = OFF
          /\ ColorAt(pre, <<d[1] \div 2, d[2] \div 4>>) = green
          /\ ColorAt(canvas, <<d[1] \div 2, d[2] \div 4>>) = green

\* A colorless source merged into a destination without colors.
C29_WitnessColorless ==
    /\ last.op = "merge_canvas"
    /\ ~is_colorized(last.other)
    /\ ~is_colorized(pre) /\ ~is_colorized(canvas)
    /\ canvas.buffer # pre.buffer

(***************************************************************************)
(* Colors and pixels of one canvas.                                        *)
(***************************************************************************)
IsLit(c, cell) == \E p \in (0..1) \X (0..3) : Block(c, cell)[p] = ON

\* C30: in every state reached by set_color, set_pixel, stroke_line, fill,
\* clear, invert and draw_text, every output cell whose color entry is not
\* Color() has a pixel on in its 2x4 block.
C30_ColoredCellsAreLit ==
    is_colorized(canvas) =>
        \A cell \in OutputCoords(canvas) :
            ColorAt(canvas, cell) # Color => IsLit(canvas, cell)

\* set_pixel turned off the only lit pixel of a red cell, directly or in
\* inverted mode: the cell lost its color.
C30_Witness ==
    /\ last.op = "set_pixel"
    /\ pre.is_inverted = last.state
    /\ is_colorized(pre)
    /\ ColorAt(pre, <<0, 0>>) = red
    /\ IsLit(pre, <<0, 0>>)
    /\ ~IsLit(canvas, <<0, 0>>)
    /\ ColorAt(canvas, <<0, 0>>) = Color

\* clear after a fill of a red cell: dark and without color.
C30_WitnessCleared ==
    /\ last.op = "clear"
    /\ is_colorized(pre)
    /\ ColorAt(pre, <<0, 0>>) = red
    /\ \A p \in (0..1) \X (0..3) : Block(pre, <<0, 0>>)[p] = ON
    /\ ~IsLit(canvas, <<0, 0>>)
    /\ ColorAt(canvas, <<0, 0>>) = Color

\* A line drawn in inverted mode through the only lit pixel of a red cell.
C30_WitnessLine ==
    /\ last.op = "stroke_line"
    /\ pre.is_inverted
    /\ is_colorized(pre) /\ ColorAt(pre, <<0, 0>>) = red
    /\ IsLit(pre, <<0, 0>>)
    /\ ~IsLit(canvas, <<0, 0>>)
    /\ ColorAt(canvas, <<0, 0>>) = Color

(***************************************************************************)
(* Claims about stroke_circle and fill_circle.  The call is last, its      *)
(* arguments last.args: centre x, centre y, radius.                        *)
(***************************************************************************)
IsCircle == last.op \in {"stroke_circle", "fill_circle"}

\* The set_pixel coordinates of stroke_circle and of fill_circle for the
\* centre and the radius of the call.
Outline ==
    PixelSet(bresenham_circle_pixels(last.args[1], last.args[2], last.args[3],
                                     FALSE))

Disc ==
    PixelSet(bresenham_circle_pixels(last.args[1], last.args[2], last.args[3],
                                     TRUE))

\* The square of side 2 * radius + 1 around the centre.
Box ==
    ((last.args[1] - last.args[3])..(last.args[1] + last.args[3]))
        \X ((last.args[2] - last.args[3])..(last.args[2] + last.args[3]))

\* The pixels from the leftmost to the rightmost pixel of S in each row.
Spans(S) ==
    {q \in Box : \E a \in S, b \in S :
                    a[2] = q[2] /\ b[2] = q[2] /\ a[1] <= q[1] /\ q[1] <= b[1]}

\* C26: for the centre and the radius >= 0 of a stroke_circle or fill_circle
\* call, the coordinates fill_circle hands to set_pixel are, in each row, the
\* ones from the leftmost to the rightmost coordinate stroke_circle hands to
\* set_pixel in that row: the outline is part of the fill, the fill has no
\* gap and goes nowhere the outline does not reach; radius 0 gives the
\* centre alone for both.  The call sets the pixels of its own set.
C26_FillIsSpansOfOutline ==
    IsCircle =>
        /\ Outline \subseteq Box
        /\ Disc \subseteq Box
        /\ Disc = Spans(Outline)
        /\ Outline \subseteq Disc
        /\ last.args[3] = 0 =>
               /\ Outline = {<<last.args[1], last.args[2]>>}
               /\ Disc = {<<last.args[1], last.args[2]>>}
        /\ canvas = set_pixels(pre,
                        bresenham_circle_pixels(
                            last.args[1], last.args[2], last.args[3],
                            last.op = "fill_circle"), 1)

\* A filled circle of radius 3 centred on the screen: 37 pixels, 16 of them
\* on the outline, and the 8 pixels of the screen lit.
C26_Witness ==
    /\ last.op = "fill_circle"
    /\ last.args[3] = 3
    /\ InScreen(pre, last.args[1], last.args[2])
    /\ Cardinality(Outline) = 16
    /\ Cardinality(Disc) = 37
    /\ \A d \in ScreenCoords(pre) : canvas.buffer[d[2] + 1][d[1] + 1] = ON

\* Radius 0: the centre pixel alone is set, by stroke_circle.
C26_WitnessPoint ==
    /\ last.op = "stroke_circle"
    /\ last.args[3] = 0
    /\ InScreen(pre, last.args[1], last.args[2])
    /\ pre.buffer[last.args[2] + 1][last.args[1] + 1] = OFF
    /\ canvas.buffer[last.args[2] + 1][last.args[1] + 1] = ON
    /\ Cardinality({d \in ScreenCoords(pre) :
                       canvas.buffer[d[2] + 1][d[1] + 1]
                           # pre.buffer[d[2] + 1][d[1] + 1]}) = 1

(***************************************************************************)
(* Claims about GameLoop.loop_fixed and GameLoop.loop_variable.  canvas    *)
(* holds the state of the loop function, canvas.calls the calls so far.    *)
(***************************************************************************)
CallsOf(name) == {i \in 1..Len(canvas.calls) : canvas.calls[i].name = name}

\* The render_frame calls that returned None or raised KeyboardInterrupt.
LastRenders ==
    {i \in CallsOf("render_frame") : canvas.calls[i].value.returns = None}

\* C24: in loop_fixed and loop_variable, set_up (hide cursor, clear screen)
\* is called once, before every render_frame call; a frame that render_frame
\* returns as a string is the argument of the update call that follows at
\* once, before any further render_frame call; after a render_frame call that
\* returns None or raises KeyboardInterrupt nothing is printed for it, no
\* render_frame and no update call follows, tear_down (show cursor) is the
\* next call and the only one, made once, and the function returns after it.
C24_LoopProtocol ==
    LET calls == canvas.calls
        n == Len(canvas.calls)
    IN  /\ Cardinality(CallsOf("set_up")) <= 1
        /\ n >= 1 =>
              /\ calls[1].name = "set_up"
              /\ Len(canvas.stdout) >= 3
              /\ SubSeq(canvas.stdout, 1, 3)
                     = << <<27, 91, 63, 50, 53, 108>>, <<27, 91, 50, 74>>,
                          <<27, 91, 49, 59, 49, 72>> >>
        /\ canvas.pc = "set_up" <=> n = 0
        /\ \A i \in CallsOf("render_frame") \ LastRenders :
              IF i < n
              THEN calls[i + 1] = [name |-> "update",
                                   value |-> calls[i].value.returns]
              ELSE canvas.pc = "update" /\ canvas.frame = calls[i].value.returns
        /\ \A i \in LastRenders :
              /\ n <= i + 1
              /\ i = n => canvas.pc = "tear_down"
              /\ i < n => calls[n].name = "tear_down" /\ canvas.pc = "returned"
        /\ \A i \in CallsOf("tear_down") : i = n /\ (i - 1) \in LastRenders
        /\ canvas.pc = "returned" => Cardinality(CallsOf("tear_down")) = 1
        /\ canvas.pc = "tear_down" => n \in LastRenders
        /\ Len(canvas.stdout)
               = 3 * Cardinality(CallsOf("set_up"))
                   + 2 * Cardinality(CallsOf("update"))
                   + 2 * Cardinality(CallsOf("tear_down"))
        /\ last.op = "render_frame" => canvas.stdout = pre.stdout
        /\ last.op = "tear_down" =>
              canvas.stdout
                  = pre.stdout \o << <<27, 91, 63, 50, 53, 104>>, <<10>> >>

\* loop_fixed has returned: set_up, a frame "a\n" printed as "a", a sleep, a
\* render_frame that raised KeyboardInterrupt, tear_down.
C24_Witness ==
    /\ canvas.loop = "loop_fixed"
    /\ canvas.pc = "returned"
    /\ [i \in 1..Len(canvas.calls) |-> canvas.calls[i].name]
           = <<"set_up", "render_frame", "update", "sleep", "render_frame",
               "tear_down">>
    /\ canvas.calls[5].value.raises = Some("KeyboardInterrupt")
    /\ canvas.stdout[5] = <<97>>
    /\ Len(canvas.stdout) = 7

\* loop_variable has returned after two frames and a render_frame that
\* returned None.
C24_WitnessNone ==
    /\ canvas.loop = "loop_variable"
    /\ canvas.pc = "returned"
    /\ Cardinality(CallsOf("update")) = 2
    /\ Cardinality(CallsOf("render_frame")) = 3
    /\ canvas.calls[Len(canvas.calls) - 1].value
           = [returns |-> None, raises |-> None]

====
